---- MODULE Spec2Model ----
(***************************************************************************)
(* Model of frctl's FederatedGraph (src/frctl/graph/dag.py): the node     *)
(* mapping, the edge list and the graph metadata, with one action per     *)
(* public operation.  Python dicts keep insertion order, so `nodes` is a  *)
(* sequence of Node records with pairwise distinct ids; the networkx      *)
(* calls the methods make are modelled by the operators Nx*, following    *)
(* networkx's DiGraph (ordered node and adjacency dicts) and its          *)
(* topological_generations (Kahn's algorithm, generation by generation).  *)
(*                                                                         *)
(* Node ids are the numbers 1 to 4; they stand for id strings in their    *)
(* lexicographic order ("a" < "b" < "c" < "d").                           *)
(***************************************************************************)
EXTENDS Integers, Sequences, FiniteSets, TLC

\* ------------------------------------------------------------------ bounds
\* longest edge list the model builds
MaxEdges == 2

\* ------------------------------------------------------------ sample inputs
NodeIds == {1, 2, 3}

\* the ids a graph may hold: those of the sample calls, and a fourth one for
\* the graphs whose depth is taken
GraphIds == NodeIds \cup {4}

\* Node objects handed to add_node: every id as a Service, id 1 also as a
\* Library (two different nodes competing for one id); their metadata dict
\* is empty ("none")
SampleNodes ==
    {[id |-> i, type |-> "Service", name |-> <<"n">>, metadata |-> "none"] : i \in NodeIds}
        \cup {[id |-> 1, type |-> "Library", name |-> <<"n">>, metadata |-> "none"]}

\* Edge objects handed to add_edge: every ordered pair (self-loops included)
\* as DEPENDS_ON, the pair (1, 2) also as OWNS
SampleEdges ==
    {[source |-> s, target |-> t, edge_type |-> "DEPENDS_ON", metadata |-> "none"] :
        s \in NodeIds, t \in NodeIds}
        \cup {[source |-> 1, target |-> 2, edge_type |-> "OWNS", metadata |-> "none"]}

\* graph metadata dicts: {} and {"version": "1.0"}
\* A metadata dict of the graph is the sequence of its items in insertion
\* order.
NoMetadata == << >>

VersionMetadata == <<[key |-> "version", value |-> "1.0"]>>

MetadataValues == {NoMetadata, VersionMetadata}

\* the keys written into the graph metadata, in the order of str.__lt__
MetadataKeys == <<"author", "owner", "version">>

\* id lists handed to extract_subgraph: the empty list, every single id and
\* every pair of ids (an id may be repeated)
IdLists ==
    {<<>>} \cup {<<i>> : i \in NodeIds} \cup {<<i, j>> : i \in NodeIds, j \in NodeIds}

\* ------------------------------------------------------------ error kinds
NoError == "ok"
DuplicateNodeError == "ValueError"
NodeNotFoundError == "NodeNotFoundError"
CycleDetectedError == "CycleDetectedError"
ValidationError == "ValidationError"

\* nodes, edges, metadata: the fields of the FederatedGraph object.
\* op, err, ret: the last call made on it, the exception it raised (NoError
\* when it returned) and the value it returned.
\* pre: the fields of the graph when that call was made.
\* sub: the graph extract_subgraph returned, while the caller keeps it, with
\* the objects it shares with the graph (NoValue when the caller keeps none).
VARIABLES nodes, edges, metadata, op, err, ret, pre, sub

vars == <<nodes, edges, metadata, op, err, ret, pre, sub>>

\* the fields of the graph as one value
Graph == [nodes |-> nodes, edges |-> edges, metadata |-> metadata]

\* return values: nothing (None, or an exception was raised), a list (of node
\* ids or of problems), a new graph, a dictionary, a hash or a number
NoValue == [kind |-> "none"]
ListValue(l) == [kind |-> "list", list |-> l]
GraphValue(g) == [kind |-> "graph", graph |-> g]
\* a new graph together with the objects it shares with the graph it was
\* taken from: ns, the ids of the shared Node objects, and es, the pairs
\* <<i, j>> where its i-th Edge object is the j-th one of the other graph
SubgraphValue(g, ns, es) ==
    [kind |-> "graph", graph |-> g, sharedNodes |-> ns, sharedEdges |-> es]
DictValue(d) == [kind |-> "dict", dict |-> d]
HashValue(h) == [kind |-> "hash", hash |-> h]
IntValue(n) == [kind |-> "int", int |-> n]
\* a Node or an Edge the graph holds
ObjectValue(x) == [kind |-> "object", object |-> x]

\* --------------------------------------------------------------- helpers
Range(s) == {s[i] : i \in 1..Len(s)}

InSeq(x, s) == \E i \in 1..Len(s) : s[i] = x

\* keys of the nodes dict, in dict (insertion) order
NodeKeys(ns) == [i \in 1..Len(ns) |-> ns[i].id]

KeySet(ns) == {ns[i].id : i \in 1..Len(ns)}

\* `x in self.nodes`
HasNode(ns, id) == id \in KeySet(ns)

\* self.nodes[id]
NodeAt(ns, id) == ns[CHOOSE i \in 1..Len(ns) : ns[i].id = id]

EmptyGraph == [nodes |-> <<>>, edges |-> <<>>, metadata |-> NoMetadata]

\* ------------------------------------------------------ networkx DiGraph
\* A DiGraph is its node dict (a sequence, in insertion order) and, for
\* every node, its successor dict (a sequence, in insertion order).
NxEmpty == [nodes |-> <<>>, adj |-> [n \in GraphIds |-> <<>>]]

NxAddNode(G, n) ==
    IF InSeq(n, G.nodes) THEN G ELSE [G EXCEPT !.nodes = Append(@, n)]

NxAddEdge(G, u, v) ==
    LET G1 == NxAddNode(NxAddNode(G, u), v)
    IN  [G1 EXCEPT !.adj[u] = IF InSeq(v, @) THEN @ ELSE Append(@, v)]

RECURSIVE NxAddEdges(_, _)
NxAddEdges(G, es) ==
    IF es = <<>> THEN G
    ELSE NxAddEdges(NxAddEdge(G, Head(es).source, Head(es).target), Tail(es))

RECURSIVE NxAddNodes(_, _)
NxAddNodes(G, ks) ==
    IF ks = <<>> THEN G ELSE NxAddNodes(NxAddNode(G, Head(ks)), Tail(ks))

NxInDegree(G, v) == Cardinality({u \in Range(G.nodes) : InSeq(v, G.adj[u])})

RECURSIVE Concat(_, _, _)
\* the children visited while one generation is processed, in visiting order
Concat(G, gen, i) ==
    IF i > Len(gen) THEN <<>> ELSE G.adj[gen[i]] \o Concat(G, gen, i + 1)

RECURSIVE NxDecrement(_, _, _)
\* indegree_map[child] -= 1 for each visited child; a child reaching 0 is
\* appended to the next generation and dropped from the map (0 = absent)
NxDecrement(children, indeg, zero) ==
    IF children = <<>> THEN [indeg |-> indeg, zero |-> zero]
    ELSE LET c == Head(children)
             d == indeg[c] - 1
         IN  NxDecrement(Tail(children), [indeg EXCEPT ![c] = d],
                         IF d = 0 THEN Append(zero, c) ELSE zero)

RECURSIVE NxGenerations(_, _, _, _)
NxGenerations(G, zero, indeg, out) ==
    IF zero = <<>>
    THEN [order |-> out, left |-> {v \in Range(G.nodes) : indeg[v] > 0}]
    ELSE LET r == NxDecrement(Concat(G, zero, 1), indeg, <<>>)
         IN  NxGenerations(G, r.zero, r.indeg, out \o zero)

\* nx.topological_generations: the order produced, and the nodes left with
\* a positive in-degree (non-empty exactly when NetworkXUnfeasible is raised)
NxTopologicalGenerations(G) ==
    LET indeg == [v \in GraphIds |-> IF InSeq(v, G.nodes) THEN NxInDegree(G, v) ELSE 0]
        zero == SelectSeq(G.nodes, LAMBDA v : indeg[v] = 0)
    IN  NxGenerations(G, zero, indeg, <<>>)

NxIsDirectedAcyclicGraph(G) == NxTopologicalGenerations(G).left = {}

NxTopologicalSort(G) == NxTopologicalGenerations(G).order

\* mutant: the graph is built from the edge list alone, so a node without
\* edges is not in it
GetNxGraph_EdgesOnly(ns, es) == NxAddEdges(NxEmpty, es)

\* FederatedGraph._get_nx_graph
GetNxGraph(ns, es) == NxAddEdges(NxAddNodes(NxEmpty, NodeKeys(ns)), es)

\* mutant: the candidate edge is left out of the graph that is checked
CycleCheckGraph_Stale(es, e) == NxAddEdges(NxEmpty, es)

\* The graph add_edge builds for its cycle check: edges only
CycleCheckGraph(es, e) == NxAddEdges(NxEmpty, Append(es, e))

\* mutant: an edge is also refused when its source reaches its target already
WouldCreateCycle_EitherDirection(es, e) ==
    \/ ~ NxIsDirectedAcyclicGraph(CycleCheckGraph(es, e))
    \/ e.target \in {v \in GraphIds :
                        \E n \in 1..Len(es) :
                            \E p \in [1..(n + 1) -> GraphIds] :
                                /\ p[1] = e.source
                                /\ p[n + 1] = v
                                /\ \A i \in 1..n :
                                      \E k \in 1..Len(es) :
                                          es[k].source = p[i] /\ es[k].target = p[i + 1]}

\* mutant: a self-loop is not taken for a cycle
WouldCreateCycle_NoSelfLoop(es, e) ==
    /\ e.source # e.target
    /\ ~ NxIsDirectedAcyclicGraph(CycleCheckGraph(es, e))

WouldCreateCycle(es, e) == ~ NxIsDirectedAcyclicGraph(CycleCheckGraph(es, e))

\* ------------------------------------------------------------------ Init
Init ==
    /\ nodes = <<>>
    /\ edges = <<>>
    /\ metadata = NoMetadata
    /\ op = [name |-> "init"]
    /\ err = NoError
    /\ ret = NoValue
    /\ pre = EmptyGraph
    /\ sub = NoValue

\* mutant: the node is stored without the duplicate check
AddNode_Overwrite ==
    \E node \in SampleNodes :
        /\ op' = [name |-> "add_node", node |-> node]
        /\ ret' = NoValue
        /\ pre' = Graph
        /\ UNCHANGED sub
        /\ err' = NoError
        /\ nodes' = IF HasNode(nodes, node.id)
                     THEN [i \in 1..Len(nodes) |->
                              IF nodes[i].id = node.id THEN node ELSE nodes[i]]
                     ELSE Append(nodes, node)
        /\ UNCHANGED <<edges, metadata>>

\* --------------------------------------------------------------- add_node
AddNode ==
    \E node \in SampleNodes :
        /\ op' = [name |-> "add_node", node |-> node]
        /\ ret' = NoValue
        /\ pre' = Graph
        /\ UNCHANGED sub
        /\ IF HasNode(nodes, node.id)
           THEN /\ err' = DuplicateNodeError
                /\ UNCHANGED <<nodes, edges, metadata>>
           ELSE /\ err' = NoError
                /\ nodes' = Append(nodes, node)
                /\ UNCHANGED <<edges, metadata>>

\* mutant: the cycle check is made before the existence check
AddEdge_CycleFirst ==
    \E edge \in SampleEdges :
        /\ op' = [name |-> "add_edge", edge |-> edge]
        /\ ret' = NoValue
        /\ pre' = Graph
        /\ UNCHANGED sub
        /\ IF WouldCreateCycle(edges, edge)
           THEN /\ err' = CycleDetectedError
                /\ UNCHANGED <<nodes, edges, metadata>>
           ELSE IF ~ HasNode(nodes, edge.source) \/ ~ HasNode(nodes, edge.target)
           THEN /\ err' = NodeNotFoundError
                /\ UNCHANGED <<nodes, edges, metadata>>
           ELSE /\ Len(edges) < MaxEdges
                /\ err' = NoError
                /\ edges' = Append(edges, edge)
                /\ UNCHANGED <<nodes, metadata>>

\* --------------------------------------------------------------- add_edge
\* The model stops appending at MaxEdges edges; calls that fail are always
\* modelled.
AddEdge ==
    \E edge \in SampleEdges :
        /\ op' = [name |-> "add_edge", edge |-> edge]
        /\ ret' = NoValue
        /\ pre' = Graph
        /\ UNCHANGED sub
        /\ IF ~ HasNode(nodes, edge.source) \/ ~ HasNode(nodes, edge.target)
           THEN /\ err' = NodeNotFoundError
                /\ UNCHANGED <<nodes, edges, metadata>>
           ELSE IF WouldCreateCycle(edges, edge)
           THEN /\ err' = CycleDetectedError
                /\ UNCHANGED <<nodes, edges, metadata>>
           ELSE /\ Len(edges) < MaxEdges
                /\ err' = NoError
                /\ edges' = Append(edges, edge)
                /\ UNCHANGED <<nodes, metadata>>

\* ------------------------------------------------------------ remove_node
\* mutant: only the edges leaving the node are removed
RemoveNodeEdges_SourceOnly(es, id) == SelectSeq(es, LAMBDA e : e.source # id)

\* mutant: the node's edges are removed together with every edge added
\* after the first of them
RemoveNodeEdges_Truncate(es, id) ==
    IF \E i \in 1..Len(es) : es[i].source = id \/ es[i].target = id
    THEN SubSeq(es, 1, (CHOOSE i \in 1..Len(es) :
                           /\ es[i].source = id \/ es[i].target = id
                           /\ \A j \in 1..(i - 1) : es[j].source # id /\ es[j].target # id) - 1)
    ELSE es

RemoveNodeEdges(es, id) ==
    SelectSeq(es, LAMBDA e : e.source # id /\ e.target # id)

RemoveNode ==
    \E id \in NodeIds :
        /\ op' = [name |-> "remove_node", id |-> id]
        /\ ret' = NoValue
        /\ pre' = Graph
        /\ UNCHANGED sub
        /\ IF ~ HasNode(nodes, id)
           THEN /\ err' = NodeNotFoundError
                /\ UNCHANGED <<nodes, edges, metadata>>
           ELSE /\ err' = NoError
                /\ nodes' = SelectSeq(nodes, LAMBDA n : n.id # id)
                /\ edges' = RemoveNodeEdges(edges, id)
                /\ UNCHANGED metadata

\* ------------------------------------------------------------ remove_edge
\* mutant: the edges that stay are put back in reverse order
RemoveEdgeMatches_Reversed(es, s, t) ==
    LET kept == SelectSeq(es, LAMBDA e : ~ (e.source = s /\ e.target = t))
    IN  [i \in 1..Len(kept) |-> kept[Len(kept) + 1 - i]]

\* mutant: only the first matching edge is removed
RemoveEdgeMatches_FirstOnly(es, s, t) ==
    IF \E i \in 1..Len(es) : es[i].source = s /\ es[i].target = t
    THEN LET k == CHOOSE i \in 1..Len(es) :
                      /\ es[i].source = s /\ es[i].target = t
                      /\ \A j \in 1..(i - 1) : ~ (es[j].source = s /\ es[j].target = t)
         IN  SubSeq(es, 1, k - 1) \o SubSeq(es, k + 1, Len(es))
    ELSE es

RemoveEdgeMatches(es, s, t) ==
    SelectSeq(es, LAMBDA e : ~ (e.source = s /\ e.target = t))

RemoveEdge ==
    \E s \in NodeIds, t \in NodeIds :
        /\ op' = [name |-> "remove_edge", source |-> s, target |-> t]
        /\ err' = NoError
        /\ ret' = NoValue
        /\ pre' = Graph
        /\ UNCHANGED sub
        /\ edges' = RemoveEdgeMatches(edges, s, t)
        /\ UNCHANGED <<nodes, metadata>>

\* ------------------------------------------------------- topological_sort
TopologicalSort ==
    LET G == GetNxGraph(nodes, edges)
    IN  /\ op' = [name |-> "topological_sort"]
        /\ pre' = Graph
        /\ UNCHANGED sub
        /\ IF ~ NxIsDirectedAcyclicGraph(G)
           THEN /\ err' = CycleDetectedError
                /\ ret' = NoValue
           ELSE /\ err' = NoError
                /\ ret' = ListValue(NxTopologicalSort(G))
        /\ UNCHANGED <<nodes, edges, metadata>>

\* ------------------------------------------- nx.ancestors / nx.descendants
RECURSIVE NxBfs(_, _, _, _)
\* breadth-first search from `frontier`; forward follows successors,
\* otherwise predecessors.  Returns the set of visited nodes.
NxBfs(G, forward, frontier, visited) ==
    LET nbrs == {v \in Range(G.nodes) :
                    \E u \in frontier :
                        IF forward THEN InSeq(v, G.adj[u]) ELSE InSeq(u, G.adj[v])}
        new == nbrs \ visited
    IN  IF new = {} THEN visited ELSE NxBfs(G, forward, new, visited \cup new)

\* mutant: the node the search starts from is among the descendants
NxDescendants_WithSource(G, n) == NxBfs(G, TRUE, {n}, {n})

\* mutant: only the direct successors are returned
NxDescendants_ChildrenOnly(G, n) == {v \in Range(G.nodes) : InSeq(v, G.adj[n])} \ {n}

NxDescendants(G, n) == NxBfs(G, TRUE, {n}, {n}) \ {n}

\* mutant: only the direct predecessors are returned
NxAncestors_ParentsOnly(G, n) == {u \in Range(G.nodes) : InSeq(n, G.adj[u])} \ {n}

NxAncestors(G, n) == NxBfs(G, FALSE, {n}, {n}) \ {n}

\* the orders in which a Python set of id strings may be iterated
SetOrders(S) ==
    {q \in [1..Cardinality(S) -> S] : \A i, j \in 1..Cardinality(S) : q[i] = q[j] => i = j}

\* G.subgraph(S): a filtered view.  Its nodes are iterated in the order of
\* the set S when S has fewer than half of G's nodes, otherwise in G's order;
\* successor dicts keep G's order.
NxSubgraphViews(G, S) ==
    LET adj == [n \in GraphIds |->
                   IF n \in S THEN SelectSeq(G.adj[n], LAMBDA v : v \in S) ELSE <<>>]
    IN  IF 2 * Cardinality(S) < Len(G.nodes)
        THEN {[nodes |-> q, adj |-> adj] : q \in SetOrders(S)}
        ELSE {[nodes |-> SelectSeq(G.nodes, LAMBDA v : v \in S), adj |-> adj]}

\* The call o, which returned, is made once more before any other call: the
\* graph is as it was, so the process builds the same sets by the same steps
\* and iterates them in the same order as in the call before.
SameCallAgain(o) == op = o /\ err = NoError

\* ---------------------------------------------------------- get_ancestors
GetAncestors ==
    \E id \in NodeIds :
        /\ op' = [name |-> "get_ancestors", id |-> id]
        /\ pre' = Graph
        /\ UNCHANGED sub
        /\ IF ~ HasNode(nodes, id)
           THEN /\ err' = NodeNotFoundError
                /\ ret' = NoValue
           ELSE LET G == GetNxGraph(nodes, edges)
                IN  /\ err' = NoError
                    /\ \E V \in NxSubgraphViews(G, NxAncestors(G, id)) :
                           /\ SameCallAgain([name |-> "get_ancestors", id |-> id])
                                  => (NxTopologicalSort(V) = ret.list)
                           /\ ret' = ListValue(NxTopologicalSort(V))
        /\ UNCHANGED <<nodes, edges, metadata>>

\* -------------------------------------------------------- get_descendants
GetDescendants ==
    \E id \in NodeIds :
        /\ op' = [name |-> "get_descendants", id |-> id]
        /\ pre' = Graph
        /\ UNCHANGED sub
        /\ IF ~ HasNode(nodes, id)
           THEN /\ err' = NodeNotFoundError
                /\ ret' = NoValue
           ELSE LET G == GetNxGraph(nodes, edges)
                IN  /\ err' = NoError
                    /\ \E q \in SetOrders(NxDescendants(G, id)) :
                           /\ SameCallAgain([name |-> "get_descendants", id |-> id])
                                  => (q = ret.list)
                           /\ ret' = ListValue(q)
        /\ UNCHANGED <<nodes, edges, metadata>>

\* ------------------------------------------------------- extract_subgraph
RECURSIVE SubgraphNodes(_, _, _)
\* subgraph.nodes[node_id] = copy of self.nodes[node_id], for each id of the
\* list in turn (a repeated id keeps its first position)
SubgraphNodes(ns, ids, acc) ==
    IF ids = <<>> THEN acc
    ELSE SubgraphNodes(ns, Tail(ids),
                       IF HasNode(acc, Head(ids)) THEN acc
                       ELSE Append(acc, NodeAt(ns, Head(ids))))

\* mutant: an edge is kept when one of its ends is in the list
SubgraphEdges_EitherEnd(es, ids) ==
    SelectSeq(es, LAMBDA e : InSeq(e.source, ids) \/ InSeq(e.target, ids))

SubgraphEdges(es, ids) ==
    SelectSeq(es, LAMBDA e : InSeq(e.source, ids) /\ InSeq(e.target, ids))

\* the pairs <<i, j>> where the i-th edge of the subgraph is the copy of the
\* j-th edge of the graph
SubgraphEdgePairs(es, ids) ==
    LET J == {j \in 1..Len(es) : InSeq(es[j].source, ids) /\ InSeq(es[j].target, ids)}
    IN  {<<Cardinality({k \in J : k <= j}), j>> : j \in J}

\* mutant: model_copy() without deep=True; the copy holds the metadata dict
\* of the object it was copied from
ModelCopyShared_Shallow(objects) == objects

\* of the objects handed to model_copy(deep=True), those whose state the
\* copy shares: none
ModelCopyShared(objects) == {}

\* mutant: ids that are not in the graph are skipped
ExtractSubgraph_SkipMissing ==
    \E ids \in IdLists :
        LET known == SelectSeq(ids, LAMBDA i : HasNode(nodes, i))
        IN  /\ op' = [name |-> "extract_subgraph", ids |-> ids]
            /\ pre' = Graph
            /\ UNCHANGED sub
            /\ err' = NoError
            /\ ret' = SubgraphValue([nodes |-> SubgraphNodes(nodes, known, <<>>),
                                     edges |-> SubgraphEdges(edges, known),
                                     metadata |-> NoMetadata],
                                    ModelCopyShared(Range(known)),
                                    ModelCopyShared(SubgraphEdgePairs(edges, known)))
            /\ UNCHANGED <<nodes, edges, metadata>>

ExtractSubgraph ==
    \E ids \in IdLists :
        /\ op' = [name |-> "extract_subgraph", ids |-> ids]
        /\ pre' = Graph
        /\ UNCHANGED sub
        /\ IF \E i \in 1..Len(ids) : ~ HasNode(nodes, ids[i])
           THEN /\ err' = NodeNotFoundError
                /\ ret' = NoValue
           ELSE /\ err' = NoError
                /\ ret' = SubgraphValue([nodes |-> SubgraphNodes(nodes, ids, <<>>),
                                         edges |-> SubgraphEdges(edges, ids),
                                         metadata |-> NoMetadata],
                                        ModelCopyShared(Range(ids)),
                                        ModelCopyShared(SubgraphEdgePairs(edges, ids)))
        /\ UNCHANGED <<nodes, edges, metadata>>

\* ------------------------------------------- graph.metadata[...] = value
\* the owner of the graph writes its public metadata field
SetMetadata ==
    \E m \in MetadataValues :
        /\ m # metadata
        /\ op' = [name |-> "set_metadata", value |-> m]
        /\ err' = NoError
        /\ ret' = NoValue
        /\ pre' = Graph
        /\ UNCHANGED sub
        /\ metadata' = m
        /\ UNCHANGED <<nodes, edges>>

\* dict item assignment: the value of a key the dict holds is replaced where
\* it stands, a new key goes to the end
SetItem(items, k, v) ==
    IF \E i \in 1..Len(items) : items[i].key = k
    THEN [i \in 1..Len(items) |->
            IF items[i].key = k THEN [key |-> k, value |-> v] ELSE items[i]]
    ELSE Append(items, [key |-> k, value |-> v])

\* the owner of the graph writes one key of its metadata
SetMetadataItem ==
    \E i \in 1..Len(MetadataKeys) :
        /\ op' = [name |-> "set_metadata_item", key |-> MetadataKeys[i]]
        /\ err' = NoError
        /\ ret' = NoValue
        /\ pre' = Graph
        /\ UNCHANGED sub
        /\ metadata' = SetItem(metadata, MetadataKeys[i], "1.0")
        /\ UNCHANGED <<nodes, edges>>

\* ---------------------------------------------------------------- validate
RECURSIVE EdgeProblems(_, _)
\* the messages of the loop over self.edges, in the order they are appended
EdgeProblems(ns, es) ==
    IF es = <<>> THEN <<>>
    ELSE LET e == Head(es)
         IN  (IF HasNode(ns, e.source) THEN <<>>
              ELSE <<[problem |-> "non-existent source node", id |-> e.source]>>)
             \o (IF HasNode(ns, e.target) THEN <<>>
                 ELSE <<[problem |-> "non-existent target node", id |-> e.target]>>)
             \o EdgeProblems(ns, Tail(es))

\* mutant: only the endpoints are checked
ValidateErrors_NoCycleCheck(g) == EdgeProblems(g.nodes, g.edges)

\* the list validate() returns for the graph g
ValidateErrors(g) ==
    (IF NxIsDirectedAcyclicGraph(GetNxGraph(g.nodes, g.edges)) THEN <<>>
     ELSE <<[problem |-> "Graph contains cycles"]>>)
    \o EdgeProblems(g.nodes, g.edges)

\* the graphs a caller can call a method on: the graph itself, and the graph
\* a call has just returned (extract_subgraph(...).validate(),
\* from_dict(...).validate())
Receivers ==
    {[self |-> "graph", graph |-> Graph]}
        \cup (IF ret.kind = "graph" THEN {[self |-> "returned", graph |-> ret.graph]} ELSE {})

Validate ==
    \E r \in Receivers :
        /\ op' = [name |-> "validate", self |-> r.self, graph |-> r.graph]
        /\ pre' = Graph
        /\ UNCHANGED sub
        /\ err' = NoError
        /\ ret' = ListValue(ValidateErrors(r.graph))
        /\ UNCHANGED <<nodes, edges, metadata>>

\* ----------------------------------------------------------------- to_dict
RECURSIVE SortedKeys(_)
\* sorted(self.nodes.keys())
SortedKeys(S) ==
    IF S = {} THEN <<>>
    ELSE LET m == CHOOSE x \in S : \A y \in S : x <= y
         IN  <<m>> \o SortedKeys(S \ {m})

KeyLess(a, b) ==
    \E i, j \in 1..Len(MetadataKeys) :
        /\ MetadataKeys[i] = a
        /\ MetadataKeys[j] = b
        /\ i < j

\* mutant: the metadata items are listed in insertion order
SortedItems_InsertionOrder(items) == items

RECURSIVE SortedItems(_)
\* dict(sorted(self.metadata.items())): the (key, value) pairs in ascending
\* order; no two pairs have the same key, so the values are never compared
SortedItems(items) ==
    IF items = <<>> THEN <<>>
    ELSE LET rest == SortedItems(SubSeq(items, 1, Len(items) - 1))
             it == items[Len(items)]
             after == {i \in 1..Len(rest) : KeyLess(it.key, rest[i].key)}
             k == IF after = {} THEN Len(rest) + 1
                  ELSE CHOOSE i \in after : \A j \in after : i <= j
         IN  SubSeq(rest, 1, k - 1) \o <<it>> \o SubSeq(rest, k, Len(rest))

\* the sort key of an edge, (e.source, e.target), compared as a tuple
EdgeKeyLess(a, b) ==
    \/ a.source < b.source
    \/ (a.source = b.source /\ a.target < b.target)

\* e put into a sorted list behind every edge whose key is not greater
InsertEdge(sorted, e) ==
    LET after == {i \in 1..Len(sorted) : EdgeKeyLess(e, sorted[i])}
        k == IF after = {} THEN Len(sorted) + 1
             ELSE CHOOSE i \in after : \A j \in after : i <= j
    IN  SubSeq(sorted, 1, k - 1) \o <<e>> \o SubSeq(sorted, k, Len(sorted))

RECURSIVE SortedEdges(_)
\* sorted(self.edges, key=lambda e: (e.source, e.target)): Python's sort is
\* stable, edges with equal keys keep the order they have in self.edges
SortedEdges(es) ==
    IF es = <<>> THEN <<>>
    ELSE InsertEdge(SortedEdges(SubSeq(es, 1, Len(es) - 1)), es[Len(es)])

\* mutant: the graph metadata is left out of the dictionary
ToDict_NoMetadata(g) ==
    LET ks == SortedKeys(KeySet(g.nodes))
    IN  [metadata |-> NoMetadata,
         nodes |-> [i \in 1..Len(ks) |-> [key |-> ks[i], data |-> NodeAt(g.nodes, ks[i])]],
         edges |-> SortedEdges(g.edges)]

\* mutant: the edges are listed in the order of self.edges
ToDict_UnsortedEdges(g) ==
    LET ks == SortedKeys(KeySet(g.nodes))
    IN  [metadata |-> SortedItems(g.metadata),
         nodes |-> [i \in 1..Len(ks) |-> [key |-> ks[i], data |-> NodeAt(g.nodes, ks[i])]],
         edges |-> g.edges]

\* The dictionary to_dict() returns: its "nodes" dict is the sequence of its
\* items (key and dumped node) in key order, its "edges" list holds the
\* dumped edges, its "metadata" dict is the sequence of the items of
\* self.metadata in key order.
ToDict(g) ==
    LET ks == SortedKeys(KeySet(g.nodes))
    IN  [metadata |-> SortedItems(g.metadata),
         nodes |-> [i \in 1..Len(ks) |-> [key |-> ks[i], data |-> NodeAt(g.nodes, ks[i])]],
         edges |-> SortedEdges(g.edges)]

\* mutant: the edge list of the graph is sorted in place
CallToDict_SortsInPlace ==
    /\ op' = [name |-> "to_dict"]
    /\ pre' = Graph
    /\ UNCHANGED sub
    /\ err' = NoError
    /\ ret' = DictValue(ToDict(Graph))
    /\ edges' = SortedEdges(edges)
    /\ UNCHANGED <<nodes, metadata>>

CallToDict ==
    /\ op' = [name |-> "to_dict"]
    /\ pre' = Graph
    /\ UNCHANGED sub
    /\ err' = NoError
    /\ ret' = DictValue(ToDict(Graph))
    /\ UNCHANGED <<nodes, edges, metadata>>

\* ------------------------------------------------------------- merkle_hash
\* json.dumps(d, sort_keys=True): the text of the dictionary; every dict of
\* the model is kept in key order already
JsonDumps(d) == [json |-> d]

\* the digest of a text; SHA-256 is taken as injective
Sha256(text) == [sha256 |-> text]

MerkleHash(g) == Sha256(JsonDumps(ToDict(g)))

CallMerkleHash ==
    /\ op' = [name |-> "merkle_hash"]
    /\ pre' = Graph
    /\ UNCHANGED sub
    /\ err' = NoError
    /\ ret' = HashValue(MerkleHash(Graph))
    /\ UNCHANGED <<nodes, edges, metadata>>

\* --------------------------------------------------------------- from_dict
\* items of documents written by hand
DocNode(i) ==
    [key |-> i, data |-> [id |-> i, type |-> "Service", name |-> <<"n">>, metadata |-> "none"]]

DocEdge(s, t) ==
    [source |-> s, target |-> t, edge_type |-> "DEPENDS_ON", metadata |-> "none"]

\* Documents handed to from_dict: the empty document, a valid one whose
\* nodes and edges are not in canonical order, a two-node cycle, a
\* self-loop, an edge from a missing node, an edge to a missing node, and a
\* cycle through a missing node
SampleDocuments ==
    {[metadata |-> NoMetadata, nodes |-> <<>>, edges |-> <<>>],
     [metadata |-> VersionMetadata, nodes |-> <<DocNode(3), DocNode(1), DocNode(2)>>,
      edges |-> <<DocEdge(3, 1), DocEdge(1, 2)>>],
     [metadata |-> NoMetadata, nodes |-> <<DocNode(1), DocNode(2)>>,
      edges |-> <<DocEdge(1, 2), DocEdge(2, 1)>>],
     [metadata |-> NoMetadata, nodes |-> <<DocNode(1)>>, edges |-> <<DocEdge(1, 1)>>],
     [metadata |-> NoMetadata, nodes |-> <<DocNode(1)>>, edges |-> <<DocEdge(2, 1)>>],
     [metadata |-> NoMetadata, nodes |-> <<DocNode(1)>>, edges |-> <<DocEdge(1, 3)>>],
     [metadata |-> NoMetadata, nodes |-> <<DocNode(1)>>,
      edges |-> <<DocEdge(1, 2), DocEdge(2, 1)>>]}

\* mutant: the edges of the document are read back to front
FromDict_ReverseEdges(doc) ==
    [nodes |-> [i \in 1..Len(doc.nodes) |-> doc.nodes[i].data],
     edges |-> [i \in 1..Len(doc.edges) |-> doc.edges[Len(doc.edges) + 1 - i]],
     metadata |-> doc.metadata]

\* The graph from_dict builds: the nodes in the order of the document's
\* "nodes" dict, the edges in the order of its "edges" list; nothing is
\* checked.  The graph of the model holds a node under its own id, so this
\* operator is for documents whose keys are the ids of their nodes (the
\* sample documents and every to_dict() of such a graph); FromDictKeyed keeps
\* the keys of any document.
FromDict(doc) ==
    [nodes |-> [i \in 1..Len(doc.nodes) |-> doc.nodes[i].data],
     edges |-> doc.edges,
     metadata |-> doc.metadata]

\* ------------------------------------------- from_dict of any document
\* NodeType and EdgeType
NodeTypes == {"Service", "Library", "Schema", "Endpoint", "Component"}

EdgeTypes == {"DEPENDS_ON", "CONSUMES", "OWNS", "IMPLEMENTS"}

\* the fields of Node and Edge declared with Field(...): they have no default
NodeRequired == {"id", "type", "name"}

EdgeRequired == {"source", "target", "edge_type"}

\* An item of a parsed document is a dict: `present` is the set of its keys,
\* `data` holds their values (the value of an absent key is not looked at).
RawNode(i) ==
    [key |-> i, present |-> NodeRequired \cup {"metadata"}, data |-> DocNode(i).data]

RawEdge(s, t) ==
    [present |-> EdgeRequired \cup {"metadata"}, data |-> DocEdge(s, t)]

\* the item without the key f
Without(item, f) == [item EXCEPT !.present = @ \ {f}]

\* a node item as written, with one key left out, or with an unknown type
NodeVariants(i) ==
    {RawNode(i)}
        \cup {Without(RawNode(i), f) : f \in NodeRequired \cup {"metadata"}}
        \cup {[RawNode(i) EXCEPT !.data.type = "Database"]}

\* an edge item as written, with one key left out, or with an unknown type
EdgeVariants(s, t) ==
    {RawEdge(s, t)}
        \cup {Without(RawEdge(s, t), f) : f \in EdgeRequired \cup {"metadata"}}
        \cup {[RawEdge(s, t) EXCEPT !.data.edge_type = "USES"]}

\* documents of two node items and one edge item, each in every variant
RawDocuments ==
    {[metadata |-> NoMetadata, nodes |-> <<n1, n2>>, edges |-> <<e>>] :
        n1 \in NodeVariants(1), n2 \in NodeVariants(2), e \in EdgeVariants(1, 2)}

\* the document to_dict() returns, as the dicts json.load gives back
Parsed(doc) ==
    [metadata |-> doc.metadata,
     nodes |-> [i \in 1..Len(doc.nodes) |->
                  [key |-> doc.nodes[i].key,
                   present |-> NodeRequired \cup {"metadata"},
                   data |-> doc.nodes[i].data]],
     edges |-> [i \in 1..Len(doc.edges) |->
                  [present |-> EdgeRequired \cup {"metadata"}, data |-> doc.edges[i]]]]

\* Node(**node_data) returns: every required field is given and the type is
\* a value of NodeType (the ids and names of these documents are not blank)
NodeConstructs(item) ==
    /\ NodeRequired \subseteq item.present
    /\ item.data.type \in NodeTypes

\* Edge(**edge_data) returns
EdgeConstructs(item) ==
    /\ EdgeRequired \subseteq item.present
    /\ item.data.edge_type \in EdgeTypes

\* the object built from an item: metadata defaults to the empty dict
Constructed(item) ==
    IF "metadata" \in item.present
    THEN item.data
    ELSE [item.data EXCEPT !.metadata = "none"]

\* mutant: an item that does not construct is skipped
FromDictRaw_SkipInvalid(doc) ==
    LET ns == SelectSeq(doc.nodes, NodeConstructs)
        es == SelectSeq(doc.edges, EdgeConstructs)
    IN  [raised |-> FALSE,
         graph |-> [nodes |-> [i \in 1..Len(ns) |-> Constructed(ns[i])],
                    edges |-> [i \in 1..Len(es) |-> Constructed(es[i])],
                    metadata |-> doc.metadata]]

\* from_dict of a parsed document: the two loops construct every item; the
\* first Node(...) or Edge(...) that raises ends the call with pydantic's
\* ValidationError and the graph built so far is dropped
FromDictRaw(doc) ==
    IF /\ \A i \in 1..Len(doc.nodes) : NodeConstructs(doc.nodes[i])
       /\ \A i \in 1..Len(doc.edges) : EdgeConstructs(doc.edges[i])
    THEN [raised |-> FALSE,
          graph |-> [nodes |-> [i \in 1..Len(doc.nodes) |-> Constructed(doc.nodes[i])],
                     edges |-> [i \in 1..Len(doc.edges) |-> Constructed(doc.edges[i])],
                     metadata |-> doc.metadata]]
    ELSE [raised |-> TRUE, graph |-> EmptyGraph]

CallFromDictRaw ==
    \E doc \in RawDocuments \cup {Parsed(ToDict(Graph))} :
        LET r == FromDictRaw(doc)
        IN  /\ op' = [name |-> "from_dict", doc |-> doc]
            /\ pre' = Graph
            /\ UNCHANGED sub
            /\ err' = IF r.raised THEN ValidationError ELSE NoError
            /\ ret' = IF r.raised THEN NoValue ELSE GraphValue(r.graph)
            /\ UNCHANGED <<nodes, edges, metadata>>

\* from_dict is a classmethod: it is handed a document written by hand or
\* the dictionary of the graph (save writes to_dict() as JSON, load hands the
\* parsed JSON to from_dict) and returns a new graph
CallFromDict ==
    \E doc \in SampleDocuments \cup {ToDict(Graph)} :
        /\ op' = [name |-> "from_dict", doc |-> doc]
        /\ pre' = Graph
        /\ UNCHANGED sub
        /\ err' = NoError
        /\ ret' = GraphValue(FromDict(doc))
        /\ UNCHANGED <<nodes, edges, metadata>>

\* ------------------------------------------------------------------- depth
RECURSIVE NxLongestDist(_, _, _)
\* nx.dag_longest_path: walking the nodes in topological order, dist[v] is
\* the largest dist[u] + 1 over the predecessors u of v (no edge of the
\* graph has a "weight" attribute, so every edge counts 1), 0 without one
NxLongestDist(G, order, dist) ==
    IF order = <<>> THEN dist
    ELSE LET v == Head(order)
             us == {dist[u] + 1 : u \in {w \in Range(G.nodes) : InSeq(v, G.adj[w])}}
             d == IF us = {} THEN 0 ELSE CHOOSE x \in us : \A y \in us : y <= x
         IN  NxLongestDist(G, Tail(order), [dist EXCEPT ![v] = d])

\* mutant: the nodes of the longest path are counted, not its edges
NxDagLongestPathLength_NodeCount(G) ==
    LET dist == NxLongestDist(G, NxTopologicalSort(G), [n \in GraphIds |-> 0])
        ds == {dist[n] : n \in Range(G.nodes)}
    IN  (CHOOSE x \in ds : \A y \in ds : y <= x) + 1

\* nx.dag_longest_path_length of a non-empty acyclic graph: the path ends at
\* a node of largest dist and has that many edges
NxDagLongestPathLength(G) ==
    LET dist == NxLongestDist(G, NxTopologicalSort(G), [n \in GraphIds |-> 0])
        ds == {dist[n] : n \in Range(G.nodes)}
    IN  CHOOSE x \in ds : \A y \in ds : y <= x

\* nx.topological_sort raises it on a graph with a cycle
NetworkXUnfeasible == "NetworkXUnfeasible"

\* mutant: the edges of the edge list are counted
CallDepth_EdgeCount ==
    /\ op' = [name |-> "depth"]
    /\ pre' = Graph
    /\ UNCHANGED sub
    /\ err' = NoError
    /\ ret' = IntValue(Len(edges))
    /\ UNCHANGED <<nodes, edges, metadata>>

CallDepth ==
    LET G == GetNxGraph(nodes, edges)
    IN  /\ op' = [name |-> "depth"]
        /\ pre' = Graph
        /\ UNCHANGED sub
        /\ IF Len(G.nodes) = 0
           THEN /\ err' = NoError
                /\ ret' = IntValue(0)
           ELSE IF NxIsDirectedAcyclicGraph(G)
           THEN /\ err' = NoError
                /\ ret' = IntValue(NxDagLongestPathLength(G))
           ELSE /\ err' = NetworkXUnfeasible
                /\ ret' = NoValue
        /\ UNCHANGED <<nodes, edges, metadata>>

\* Graphs whose depth is taken.  Each is built by add_node calls in the
\* order of its node list followed by add_edge calls in the order of its
\* edge list: every edge leads from a smaller id to a larger one, so no call
\* is rejected.  The pair (1, 2) may carry an OWNS edge too, and an edge
\* may be added more than once.
DepthNodeLists ==
    {<<>>, <<1>>, <<1, 2>>, <<1, 2, 3>>, <<1, 2, 3, 4>>, <<4, 3, 2, 1>>, <<2, 4, 1, 3>>}

DepthEdges ==
    {DocEdge(p[1], p[2]) : p \in {q \in GraphIds \X GraphIds : q[1] < q[2]}}
        \cup {[source |-> 1, target |-> 2, edge_type |-> "OWNS", metadata |-> "none"]}

\* the lists of up to four of these edges between the nodes ks
DepthEdgeLists(ks) ==
    UNION {[1..n -> {e \in DepthEdges : InSeq(e.source, ks) /\ InSeq(e.target, ks)}] :
           n \in 0..4}

InitDepth ==
    /\ \E ks \in DepthNodeLists :
          /\ nodes = [i \in 1..Len(ks) |-> DocNode(ks[i]).data]
          /\ edges \in DepthEdgeLists(ks)
    /\ metadata = NoMetadata
    /\ op = [name |-> "init"]
    /\ err = NoError
    /\ ret = NoValue
    /\ pre = EmptyGraph
    /\ sub = NoValue

\* ------------------------------------------- the caller keeps the subgraph
\* subgraph = graph.extract_subgraph(ids)
KeepSubgraph ==
    /\ op.name = "extract_subgraph"
    /\ ret.kind = "graph"
    /\ sub = NoValue
    /\ sub' = ret
    /\ UNCHANGED <<nodes, edges, metadata, op, err, ret, pre>>

\* ------------------------------------------------ calls on the subgraph
\* The subgraph is a FederatedGraph of its own (subgraph = FederatedGraph()):
\* its nodes dict and edges list are new containers, so its methods work on
\* sub.graph as the methods of the graph work on nodes and edges.
SubAddNode ==
    \E node \in SampleNodes :
        /\ sub # NoValue
        /\ op' = [name |-> "subgraph.add_node", node |-> node]
        /\ ret' = NoValue
        /\ pre' = Graph
        /\ IF HasNode(sub.graph.nodes, node.id)
           THEN /\ err' = DuplicateNodeError
                /\ UNCHANGED sub
           ELSE /\ err' = NoError
                /\ sub' = [sub EXCEPT !.graph.nodes = Append(@, node)]
        /\ UNCHANGED <<nodes, edges, metadata>>

SubAddEdge ==
    \E edge \in SampleEdges :
        /\ sub # NoValue
        /\ op' = [name |-> "subgraph.add_edge", edge |-> edge]
        /\ ret' = NoValue
        /\ pre' = Graph
        /\ IF ~ HasNode(sub.graph.nodes, edge.source) \/ ~ HasNode(sub.graph.nodes, edge.target)
           THEN /\ err' = NodeNotFoundError
                /\ UNCHANGED sub
           ELSE IF WouldCreateCycle(sub.graph.edges, edge)
           THEN /\ err' = CycleDetectedError
                /\ UNCHANGED sub
           ELSE /\ Len(sub.graph.edges) < MaxEdges
                /\ err' = NoError
                /\ sub' = [sub EXCEPT !.graph.edges = Append(@, edge)]
        /\ UNCHANGED <<nodes, edges, metadata>>

SubRemoveNode ==
    \E id \in NodeIds :
        /\ sub # NoValue
        /\ op' = [name |-> "subgraph.remove_node", id |-> id]
        /\ ret' = NoValue
        /\ pre' = Graph
        /\ IF ~ HasNode(sub.graph.nodes, id)
           THEN /\ err' = NodeNotFoundError
                /\ UNCHANGED sub
           ELSE /\ err' = NoError
                /\ sub' = [sub EXCEPT
                             !.graph.nodes = SelectSeq(@, LAMBDA n : n.id # id),
                             !.graph.edges = RemoveNodeEdges(@, id)]
        /\ UNCHANGED <<nodes, edges, metadata>>

SubRemoveEdge ==
    \E s \in NodeIds, t \in NodeIds :
        /\ sub # NoValue
        /\ op' = [name |-> "subgraph.remove_edge", source |-> s, target |-> t]
        /\ ret' = NoValue
        /\ pre' = Graph
        /\ err' = NoError
        /\ sub' = [sub EXCEPT !.graph.edges = RemoveEdgeMatches(@, s, t)]
        /\ UNCHANGED <<nodes, edges, metadata>>

\* ----------------------------------- node.metadata[...] = value, for edges too
\* the metadata dict after the caller has written an item into it
WrittenMetadata == "reviewed=yes"

\* the node list after a write into the metadata dict of node id
WriteNodeMetadata(ns, id) ==
    [i \in 1..Len(ns) |->
        IF ns[i].id = id THEN [ns[i] EXCEPT !.metadata = WrittenMetadata] ELSE ns[i]]

\* the edge list after a write into the metadata dict of its j-th edge
WriteEdgeMetadata(es, j) == [es EXCEPT ![j].metadata = WrittenMetadata]

\* get_node and get_edge hand out the objects the graph holds, and the
\* metadata dict of a Node or an Edge can be written.  A write into an
\* object that the kept subgraph shares shows in the subgraph as well.
SetNodeMetadata ==
    \E id \in KeySet(nodes) :
        /\ op' = [name |-> "set_node_metadata", id |-> id]
        /\ ret' = NoValue
        /\ err' = NoError
        /\ pre' = Graph
        /\ nodes' = WriteNodeMetadata(nodes, id)
        /\ sub' = IF sub # NoValue /\ id \in sub.sharedNodes
                   THEN [sub EXCEPT !.graph.nodes = WriteNodeMetadata(@, id)]
                   ELSE sub
        /\ UNCHANGED <<edges, metadata>>

SetEdgeMetadata ==
    \E j \in 1..Len(edges) :
        /\ op' = [name |-> "set_edge_metadata", index |-> j]
        /\ ret' = NoValue
        /\ err' = NoError
        /\ pre' = Graph
        /\ edges' = WriteEdgeMetadata(edges, j)
        /\ sub' = IF sub # NoValue /\ \E p \in sub.sharedEdges : p[2] = j
                   THEN LET p == CHOOSE q \in sub.sharedEdges : q[2] = j
                        IN  [sub EXCEPT !.graph.edges = WriteEdgeMetadata(@, p[1])]
                   ELSE sub
        /\ UNCHANGED <<nodes, metadata>>

SubSetNodeMetadata ==
    /\ sub # NoValue
    /\ \E id \in KeySet(sub.graph.nodes) :
        /\ op' = [name |-> "subgraph.set_node_metadata", id |-> id]
        /\ ret' = NoValue
        /\ err' = NoError
        /\ pre' = Graph
        /\ sub' = [sub EXCEPT !.graph.nodes = WriteNodeMetadata(@, id)]
        /\ nodes' = IF id \in sub.sharedNodes THEN WriteNodeMetadata(nodes, id) ELSE nodes
        /\ UNCHANGED <<edges, metadata>>

SubSetEdgeMetadata ==
    /\ sub # NoValue
    /\ \E i \in 1..Len(sub.graph.edges) :
        /\ op' = [name |-> "subgraph.set_edge_metadata", index |-> i]
        /\ ret' = NoValue
        /\ err' = NoError
        /\ pre' = Graph
        /\ sub' = [sub EXCEPT !.graph.edges = WriteEdgeMetadata(@, i)]
        /\ edges' = IF \E p \in sub.sharedEdges : p[1] = i
                     THEN LET p == CHOOSE q \in sub.sharedEdges : q[1] = i
                          IN  WriteEdgeMetadata(edges, p[2])
                     ELSE edges
        /\ UNCHANGED <<nodes, metadata>>

\* ------------------------------------------------------ get_node, get_edge
GetNode ==
    \E id \in NodeIds :
        /\ op' = [name |-> "get_node", id |-> id]
        /\ pre' = Graph
        /\ UNCHANGED sub
        /\ err' = NoError
        /\ ret' = IF HasNode(nodes, id) THEN ObjectValue(NodeAt(nodes, id)) ELSE NoValue
        /\ UNCHANGED <<nodes, edges, metadata>>

\* mutant: the loop keeps the last edge that matches
FirstMatch_Last(es, s, t) ==
    LET hits == {i \in 1..Len(es) : es[i].source = s /\ es[i].target = t}
    IN  IF hits = {} THEN 0 ELSE CHOOSE i \in hits : \A j \in hits : j <= i

\* the index at which the loop of get_edge returns, 0 when it runs to its end
FirstMatch(es, s, t) ==
    LET hits == {i \in 1..Len(es) : es[i].source = s /\ es[i].target = t}
    IN  IF hits = {} THEN 0 ELSE CHOOSE i \in hits : \A j \in hits : i <= j

GetEdge ==
    \E s \in NodeIds, t \in NodeIds :
        /\ op' = [name |-> "get_edge", source |-> s, target |-> t]
        /\ pre' = Graph
        /\ UNCHANGED sub
        /\ err' = NoError
        /\ ret' = IF FirstMatch(edges, s, t) = 0 THEN NoValue
                   ELSE ObjectValue(edges[FirstMatch(edges, s, t)])
        /\ UNCHANGED <<nodes, edges, metadata>>

\* ------------------------------------------- one call on a graph built before
\* Edge objects handed to add_edge on a built graph: every ordered pair of
\* its ids (self-loops included) as DEPENDS_ON, the pair (1, 2) also as OWNS
BuiltEdges ==
    {DocEdge(s, t) : s \in GraphIds, t \in GraphIds}
        \cup {[source |-> 1, target |-> 2, edge_type |-> "OWNS", metadata |-> "none"]}

\* mutant: an edge equal to one of the list is not appended again
AddEdgeBuilt_Dedup ==
    \E edge \in BuiltEdges :
        /\ op' = [name |-> "add_edge", edge |-> edge]
        /\ ret' = NoValue
        /\ pre' = Graph
        /\ UNCHANGED sub
        /\ IF ~ HasNode(nodes, edge.source) \/ ~ HasNode(nodes, edge.target)
           THEN /\ err' = NodeNotFoundError
                /\ UNCHANGED <<nodes, edges, metadata>>
           ELSE IF WouldCreateCycle(edges, edge)
           THEN /\ err' = CycleDetectedError
                /\ UNCHANGED <<nodes, edges, metadata>>
           ELSE /\ err' = NoError
                /\ edges' = IF InSeq(edge, edges) THEN edges ELSE Append(edges, edge)
                /\ UNCHANGED <<nodes, metadata>>

\* add_edge on a graph of up to four nodes; the edge list may grow past
\* MaxEdges here, the caller makes one call only
AddEdgeBuilt ==
    \E edge \in BuiltEdges :
        /\ op' = [name |-> "add_edge", edge |-> edge]
        /\ ret' = NoValue
        /\ pre' = Graph
        /\ UNCHANGED sub
        /\ IF ~ HasNode(nodes, edge.source) \/ ~ HasNode(nodes, edge.target)
           THEN /\ err' = NodeNotFoundError
                /\ UNCHANGED <<nodes, edges, metadata>>
           ELSE IF WouldCreateCycle(edges, edge)
           THEN /\ err' = CycleDetectedError
                /\ UNCHANGED <<nodes, edges, metadata>>
           ELSE /\ err' = NoError
                /\ edges' = Append(edges, edge)
                /\ UNCHANGED <<nodes, metadata>>

\* ------------------------------------------------- node_count, edge_count
NodeCount(g) == Len(g.nodes)

EdgeCount(g) == Len(g.edges)

CallNodeCount ==
    /\ op' = [name |-> "node_count"]
    /\ pre' = Graph
    /\ UNCHANGED sub
    /\ err' = NoError
    /\ ret' = IntValue(NodeCount(Graph))
    /\ UNCHANGED <<nodes, edges, metadata>>

CallEdgeCount ==
    /\ op' = [name |-> "edge_count"]
    /\ pre' = Graph
    /\ UNCHANGED sub
    /\ err' = NoError
    /\ ret' = IntValue(EdgeCount(Graph))
    /\ UNCHANGED <<nodes, edges, metadata>>

\* ------------------------------------------------- Node(...) and Edge(...)
\* Strings are sequences of characters; CharOrder lists the characters in
\* the order of their code points ("@local", the tail of every generated id,
\* stands where its first character stands).
CharOrder == <<" ", "-", "@local", "A", "_", "a", "b">>

CharLess(c, d) ==
    \E i, j \in 1..Len(CharOrder) : CharOrder[i] = c /\ CharOrder[j] = d /\ i < j

RECURSIVE StrLess(_, _)
\* str.__lt__: the first differing character decides, a proper prefix is less
StrLess(s, t) ==
    IF t = <<>> THEN FALSE
    ELSE IF s = <<>> THEN TRUE
    ELSE IF Head(s) = Head(t) THEN StrLess(Tail(s), Tail(t))
    ELSE CharLess(Head(s), Head(t))

\* the id strings handed to Node(id=...), Edge(source=..., target=...)
RawIds ==
    {<<>>, <<" ">>, <<"a">>, <<" ", "a", " ">>, <<"b">>, <<"b", " ">>}

\* mutant: the string is returned as it was given
Strip_Nothing(s) == s

RECURSIVE Strip(_)
\* str.strip(): leading and trailing whitespace is removed
Strip(s) ==
    IF s = <<>> THEN <<>>
    ELSE IF Head(s) = " " THEN Strip(Tail(s))
    ELSE IF s[Len(s)] = " " THEN Strip(SubSeq(s, 1, Len(s) - 1))
    ELSE s

\* The graph of the model holds ids as numbers: a string is numbered by its
\* place among the id strings in ascending order, so that numbers compare as
\* the strings do.
IdNumber(s) == 1 + Cardinality({t \in RawIds \ {<<>>, <<" ">>} : StrLess(t, s)})

\* validate_id, validate_node_ids: a string that is empty or all whitespace
\* is refused, any other is returned stripped
ValidateId(v) ==
    IF v = <<>> \/ Strip(v) = <<>>
    THEN [raised |-> TRUE, value |-> <<>>]
    ELSE [raised |-> FALSE, value |-> Strip(v)]

\* node = Node(id=raw, type=..., name=...); graph.add_node(node)
AddNodeRaw ==
    \E raw \in RawIds :
        LET v == ValidateId(raw)
            node == [id |-> IdNumber(v.value), type |-> "Service", name |-> <<"n">>,
                     metadata |-> "none"]
        IN  /\ ret' = NoValue
            /\ pre' = Graph
            /\ UNCHANGED sub
            /\ IF v.raised
               THEN /\ op' = [name |-> "Node", raw |-> raw]
                    /\ err' = ValidationError
                    /\ UNCHANGED <<nodes, edges, metadata>>
               ELSE /\ op' = [name |-> "add_node", raw |-> raw, node |-> node]
                    /\ IF HasNode(nodes, node.id)
                       THEN /\ err' = DuplicateNodeError
                            /\ UNCHANGED <<nodes, edges, metadata>>
                       ELSE /\ err' = NoError
                            /\ nodes' = Append(nodes, node)
                            /\ UNCHANGED <<edges, metadata>>

\* edge = Edge(source=rawSource, target=rawTarget, edge_type=...);
\* graph.add_edge(edge)
AddEdgeRaw ==
    \E rawSource \in RawIds, rawTarget \in RawIds :
        LET s == ValidateId(rawSource)
            t == ValidateId(rawTarget)
            edge == [source |-> IdNumber(s.value), target |-> IdNumber(t.value),
                     edge_type |-> "DEPENDS_ON", metadata |-> "none"]
        IN  /\ ret' = NoValue
            /\ pre' = Graph
            /\ UNCHANGED sub
            /\ IF s.raised \/ t.raised
               THEN /\ op' = [name |-> "Edge", rawSource |-> rawSource,
                              rawTarget |-> rawTarget]
                    /\ err' = ValidationError
                    /\ UNCHANGED <<nodes, edges, metadata>>
               ELSE /\ op' = [name |-> "add_edge", rawSource |-> rawSource,
                              rawTarget |-> rawTarget, edge |-> edge]
                    /\ IF ~ HasNode(nodes, edge.source) \/ ~ HasNode(nodes, edge.target)
                       THEN /\ err' = NodeNotFoundError
                            /\ UNCHANGED <<nodes, edges, metadata>>
                       ELSE IF WouldCreateCycle(edges, edge)
                       THEN /\ err' = CycleDetectedError
                            /\ UNCHANGED <<nodes, edges, metadata>>
                       ELSE /\ Len(edges) < MaxEdges
                            /\ err' = NoError
                            /\ edges' = Append(edges, edge)
                            /\ UNCHANGED <<nodes, metadata>>

\* ----------------------------------------------------------- generate_purl
StrValue(s) == [kind |-> "str", value |-> s]

\* the names handed to generate_purl: every string of at most three of
\* these characters
NameChars == {" ", "_", "-", "a", "A"}

Names == UNION {[1..n -> NameChars] : n \in 0..3}

\* str.lower(), character by character
Lower(c) == IF c = "A" THEN "a" ELSE c

\* s.replace(old, new) for a pattern of one character, character by character
ReplaceChar(c, old, new) == IF c = old THEN new ELSE c

\* name.lower().replace(" ", "-").replace("_", "-")
SafeName(name) ==
    [i \in 1..Len(name) |->
        ReplaceChar(ReplaceChar(Lower(name[i]), " ", "-"), "_", "-")]

\* f"pkg:frctl/{safe_name}@local"
GeneratePurl(name) == <<"pkg:frctl/">> \o SafeName(name) \o <<"@local">>

CallGeneratePurl ==
    \E name \in Names :
        /\ op' = [name |-> "generate_purl", arg |-> name]
        /\ pre' = Graph
        /\ UNCHANGED sub
        /\ err' = NoError
        /\ ret' = StrValue(GeneratePurl(name))
        /\ UNCHANGED <<nodes, edges, metadata>>

\* ------------------------------------------------- nodes made from names
\* names typed by the user; several of them get the same generated id
NodeNames == {<<"a">>, <<"A">>, <<"a", " ">>, <<"a", "_">>, <<"-">>, <<" ">>}

\* The graph of the model holds ids as numbers: a generated id is numbered
\* by its place among the generated ids in ascending order.
PurlNumber(p) ==
    1 + Cardinality({q \in {GeneratePurl(n) : n \in NodeNames} : StrLess(q, p)})

\* validate_name: the same test and the same strip() as validate_id
ValidateName(v) ==
    IF v = <<>> \/ Strip(v) = <<>>
    THEN [raised |-> TRUE, value |-> <<>>]
    ELSE [raised |-> FALSE, value |-> Strip(v)]

\* mutant: the node is stored under its id whether or not the id is taken
AddNamedNode_Overwrite ==
    \E name \in NodeNames, type \in {"Service", "Library"} :
        LET i == ValidateId(GeneratePurl(name))
            n == ValidateName(name)
            node == [id |-> PurlNumber(i.value), type |-> type, name |-> n.value,
                     metadata |-> "none"]
        IN  /\ ret' = NoValue
            /\ pre' = Graph
            /\ UNCHANGED sub
            /\ IF i.raised \/ n.raised
               THEN /\ op' = [name |-> "Node", arg |-> name, type |-> type]
                    /\ err' = ValidationError
                    /\ UNCHANGED <<nodes, edges, metadata>>
               ELSE /\ op' = [name |-> "add_node", arg |-> name, type |-> type,
                              node |-> node]
                    /\ err' = NoError
                    /\ nodes' = IF HasNode(nodes, node.id)
                                THEN [k \in 1..Len(nodes) |->
                                        IF nodes[k].id = node.id THEN node ELSE nodes[k]]
                                ELSE Append(nodes, node)
                    /\ UNCHANGED <<edges, metadata>>

\* node = Node(id=generate_purl(name), type=type, name=name);
\* graph.add_node(node)
AddNamedNode ==
    \E name \in NodeNames, type \in {"Service", "Library"} :
        LET i == ValidateId(GeneratePurl(name))
            n == ValidateName(name)
            node == [id |-> PurlNumber(i.value), type |-> type, name |-> n.value,
                     metadata |-> "none"]
        IN  /\ ret' = NoValue
            /\ pre' = Graph
            /\ UNCHANGED sub
            /\ IF i.raised \/ n.raised
               THEN /\ op' = [name |-> "Node", arg |-> name, type |-> type]
                    /\ err' = ValidationError
                    /\ UNCHANGED <<nodes, edges, metadata>>
               ELSE /\ op' = [name |-> "add_node", arg |-> name, type |-> type,
                              node |-> node]
                    /\ IF HasNode(nodes, node.id)
                       THEN /\ err' = DuplicateNodeError
                            /\ UNCHANGED <<nodes, edges, metadata>>
                       ELSE /\ err' = NoError
                            /\ nodes' = Append(nodes, node)
                            /\ UNCHANGED <<edges, metadata>>

\* what the command prints when it returns without saving
InvalidNodeType == "Invalid node type"
AlreadyExists == "Node with ID already exists"

\* mutant: the command does not look the id up and stores the node under it
CliAddNode_Overwrite ==
    \E node_type \in {"Service", "Library", "Database"}, name \in NodeNames :
        LET g == FromDict(ToDict(Graph))
            i == ValidateId(GeneratePurl(name))
            n == ValidateName(name)
            node == [id |-> PurlNumber(i.value), type |-> node_type, name |-> n.value,
                     metadata |-> "none"]
        IN  /\ op' = [name |-> "cli.add_node", arg |-> name, type |-> node_type]
            /\ ret' = NoValue
            /\ pre' = Graph
            /\ UNCHANGED sub
            /\ IF node_type \notin NodeTypes
               THEN /\ err' = InvalidNodeType
                    /\ UNCHANGED <<nodes, edges, metadata>>
               ELSE IF i.raised \/ n.raised
               THEN /\ err' = ValidationError
                    /\ UNCHANGED <<nodes, edges, metadata>>
               ELSE /\ err' = NoError
                    /\ nodes' = IF HasNode(g.nodes, node.id)
                                THEN [k \in 1..Len(g.nodes) |->
                                        IF g.nodes[k].id = node.id THEN node
                                        ELSE g.nodes[k]]
                                ELSE Append(g.nodes, node)
                    /\ edges' = g.edges
                    /\ metadata' = g.metadata

\* `frctl graph add-node TYPE NAME` in a directory where `frctl graph init`
\* has been run.  The graph of the model is the one the file holds: the
\* command loads it (from_dict of the saved to_dict), and after a successful
\* add_node saves it; every other way out leaves the file as it was.
CliAddNode ==
    \E node_type \in {"Service", "Library", "Database"}, name \in NodeNames :
        LET g == FromDict(ToDict(Graph))
            i == ValidateId(GeneratePurl(name))
            n == ValidateName(name)
            node == [id |-> PurlNumber(i.value), type |-> node_type, name |-> n.value,
                     metadata |-> "none"]
        IN  /\ op' = [name |-> "cli.add_node", arg |-> name, type |-> node_type]
            /\ ret' = NoValue
            /\ pre' = Graph
            /\ UNCHANGED sub
            /\ IF node_type \notin NodeTypes
               THEN /\ err' = InvalidNodeType
                    /\ UNCHANGED <<nodes, edges, metadata>>
               ELSE IF HasNode(g.nodes, PurlNumber(GeneratePurl(name)))
               THEN /\ err' = AlreadyExists
                    /\ UNCHANGED <<nodes, edges, metadata>>
               ELSE IF i.raised \/ n.raised
               THEN /\ err' = ValidationError
                    /\ UNCHANGED <<nodes, edges, metadata>>
               ELSE IF HasNode(g.nodes, node.id)
               THEN /\ err' = DuplicateNodeError
                    /\ UNCHANGED <<nodes, edges, metadata>>
               ELSE /\ err' = NoError
                    /\ nodes' = Append(g.nodes, node)
                    /\ edges' = g.edges
                    /\ metadata' = g.metadata

\* ------------------------------------------- add_edge of a rejected edge
\* the caller catches CycleDetectedError and keeps the edge it tried to add
KeepEdge ==
    /\ op.name = "add_edge"
    /\ err = CycleDetectedError
    /\ sub = NoValue
    /\ sub' = ObjectValue(op.edge)
    /\ UNCHANGED <<nodes, edges, metadata, op, err, ret, pre>>

\* mutant: the cycle check looks at the edge list as it was before the last
\* call
RetryAddEdge_Stale ==
    /\ sub.kind = "object"
    /\ LET edge == sub.object
       IN  /\ op' = [name |-> "add_edge", edge |-> edge]
           /\ ret' = NoValue
           /\ pre' = Graph
           /\ UNCHANGED sub
           /\ IF ~ HasNode(nodes, edge.source) \/ ~ HasNode(nodes, edge.target)
              THEN /\ err' = NodeNotFoundError
                   /\ UNCHANGED <<nodes, edges, metadata>>
              ELSE IF WouldCreateCycle(pre.edges, edge)
              THEN /\ err' = CycleDetectedError
                   /\ UNCHANGED <<nodes, edges, metadata>>
              ELSE /\ err' = NoError
                   /\ edges' = Append(edges, edge)
                   /\ UNCHANGED <<nodes, metadata>>

\* graph.add_edge(edge) with the edge the caller has kept
RetryAddEdge ==
    /\ sub.kind = "object"
    /\ LET edge == sub.object
       IN  /\ op' = [name |-> "add_edge", edge |-> edge]
           /\ ret' = NoValue
           /\ pre' = Graph
           /\ UNCHANGED sub
           /\ IF ~ HasNode(nodes, edge.source) \/ ~ HasNode(nodes, edge.target)
              THEN /\ err' = NodeNotFoundError
                   /\ UNCHANGED <<nodes, edges, metadata>>
              ELSE IF WouldCreateCycle(edges, edge)
              THEN /\ err' = CycleDetectedError
                   /\ UNCHANGED <<nodes, edges, metadata>>
              ELSE /\ err' = NoError
                   /\ edges' = Append(edges, edge)
                   /\ UNCHANGED <<nodes, metadata>>

\* ---------------------------------- topological_sort of any graph object
\* mutant: the order is computed without the acyclicity test
CallTopologicalSort_NoCheck ==
    \E r \in Receivers :
        LET G == GetNxGraph(r.graph.nodes, r.graph.edges)
        IN  /\ op' = [name |-> "topological_sort", self |-> r.self, graph |-> r.graph]
            /\ pre' = Graph
            /\ UNCHANGED sub
            /\ err' = NoError
            /\ ret' = ListValue(NxTopologicalSort(G))
            /\ UNCHANGED <<nodes, edges, metadata>>

\* topological_sort() of the graph or of the graph that from_dict has just
\* returned
CallTopologicalSort ==
    \E r \in Receivers :
        LET G == GetNxGraph(r.graph.nodes, r.graph.edges)
        IN  /\ op' = [name |-> "topological_sort", self |-> r.self, graph |-> r.graph]
            /\ pre' = Graph
            /\ UNCHANGED sub
            /\ IF ~ NxIsDirectedAcyclicGraph(G)
               THEN /\ err' = CycleDetectedError
                    /\ ret' = NoValue
               ELSE /\ err' = NoError
                    /\ ret' = ListValue(NxTopologicalSort(G))
            /\ UNCHANGED <<nodes, edges, metadata>>

\* ------------------------------------------- from_dict, keys of the nodes
\* A graph object with its nodes mapping spelled out: the items (key, node)
\* in insertion order.
KeyedItem(k, i) == [key |-> k, data |-> DocNode(i).data]

\* documents of one or two node items under distinct keys, the id inside an
\* item equal to its key or not
KeyedDocuments ==
    {[metadata |-> NoMetadata, nodes |-> <<KeyedItem(k, i)>>, edges |-> <<>>] :
        k \in {1, 2}, i \in {1, 2}}
    \cup {[metadata |-> NoMetadata, nodes |-> <<KeyedItem(1, i), KeyedItem(2, j)>>,
           edges |-> <<DocEdge(1, 2)>>] : i \in {1, 2}, j \in {1, 2}}

\* graph.nodes[node_id] = Node(**node_data) for every item of the document:
\* the key is the key of the document, whatever id the node has
FromDictKeyed(doc) ==
    [nodes |-> [i \in 1..Len(doc.nodes) |->
                  [key |-> doc.nodes[i].key, node |-> doc.nodes[i].data]],
     edges |-> doc.edges,
     metadata |-> doc.metadata]

\* self.nodes.get(node_id) on such a graph object
KeyedGetNode(g, k) ==
    IF \E i \in 1..Len(g.nodes) : g.nodes[i].key = k
    THEN ObjectValue(g.nodes[CHOOSE i \in 1..Len(g.nodes) : g.nodes[i].key = k].node)
    ELSE NoValue

\* the "nodes" dict of to_dict() on such a graph object: for each key in
\* ascending order, the dumped node stored under it
KeyedToDictNodes(g) ==
    LET ks == SortedKeys({g.nodes[i].key : i \in 1..Len(g.nodes)})
    IN  [n \in 1..Len(ks) |->
            [key |-> ks[n], data |-> KeyedGetNode(g, ks[n]).object]]

KeyedGraphValue(g) == [kind |-> "keyed", graph |-> g]

CallFromDictKeyed ==
    \E doc \in KeyedDocuments \cup {ToDict(Graph)} :
        /\ op' = [name |-> "from_dict", doc |-> doc]
        /\ pre' = Graph
        /\ UNCHANGED sub
        /\ err' = NoError
        /\ ret' = KeyedGraphValue(FromDictKeyed(doc))
        /\ UNCHANGED <<nodes, edges, metadata>>

\* -------------------------------- frctl graph add-edge / remove-node / remove-edge
\* what a command prints before it returns
Echo(text) == [kind |-> "echo", text |-> text]

InvalidEdgeType == "Invalid edge type"

\* mutant: the graph is saved whether or not add_edge has raised
CliAddEdge_SaveAlways ==
    \E source \in NodeIds, target \in NodeIds, edge_type \in {"DEPENDS_ON", "USES"} :
        LET g == FromDict(ToDict(Graph))
            edge == [source |-> source, target |-> target, edge_type |-> edge_type,
                     metadata |-> "none"]
        IN  /\ op' = [name |-> "cli.add_edge", edge |-> edge]
            /\ pre' = Graph
            /\ UNCHANGED sub
            /\ IF edge_type \notin EdgeTypes
               THEN /\ err' = InvalidEdgeType
                    /\ ret' = Echo("Invalid edge type")
                    /\ UNCHANGED <<nodes, edges, metadata>>
               ELSE IF ~ HasNode(g.nodes, edge.source) \/ ~ HasNode(g.nodes, edge.target)
               THEN /\ err' = NodeNotFoundError
                    /\ ret' = Echo("Error")
                    /\ nodes' = g.nodes
                    /\ edges' = Append(g.edges, edge)
                    /\ metadata' = g.metadata
               ELSE IF WouldCreateCycle(g.edges, edge)
               THEN /\ err' = CycleDetectedError
                    /\ ret' = Echo("Error")
                    /\ nodes' = g.nodes
                    /\ edges' = Append(g.edges, edge)
                    /\ metadata' = g.metadata
               ELSE /\ Len(g.edges) < MaxEdges
                    /\ err' = NoError
                    /\ ret' = Echo("Added edge")
                    /\ nodes' = g.nodes
                    /\ edges' = Append(g.edges, edge)
                    /\ metadata' = g.metadata

\* `frctl graph add-edge SOURCE TARGET --type TYPE`: the edge type is looked
\* up, the graph is loaded, and Edge(...), add_edge and save run inside a
\* try whose handler prints the error.  As in CliAddNode the graph of the
\* model is the one the file holds.  The model stops appending at MaxEdges
\* edges.
CliAddEdge ==
    \E source \in NodeIds, target \in NodeIds, edge_type \in {"DEPENDS_ON", "USES"} :
        LET g == FromDict(ToDict(Graph))
            edge == [source |-> source, target |-> target, edge_type |-> edge_type,
                     metadata |-> "none"]
        IN  /\ op' = [name |-> "cli.add_edge", edge |-> edge]
            /\ pre' = Graph
            /\ UNCHANGED sub
            /\ IF edge_type \notin EdgeTypes
               THEN /\ err' = InvalidEdgeType
                    /\ ret' = Echo("Invalid edge type")
                    /\ UNCHANGED <<nodes, edges, metadata>>
               ELSE IF ~ HasNode(g.nodes, edge.source) \/ ~ HasNode(g.nodes, edge.target)
               THEN /\ err' = NodeNotFoundError
                    /\ ret' = Echo("Error")
                    /\ UNCHANGED <<nodes, edges, metadata>>
               ELSE IF WouldCreateCycle(g.edges, edge)
               THEN /\ err' = CycleDetectedError
                    /\ ret' = Echo("Error")
                    /\ UNCHANGED <<nodes, edges, metadata>>
               ELSE /\ Len(g.edges) < MaxEdges
                    /\ err' = NoError
                    /\ ret' = Echo("Added edge")
                    /\ nodes' = g.nodes
                    /\ edges' = Append(g.edges, edge)
                    /\ metadata' = g.metadata

\* `frctl graph remove-node NODE_ID`: load, then remove_node and save inside
\* a try whose handler prints the error
CliRemoveNode ==
    \E id \in NodeIds :
        LET g == FromDict(ToDict(Graph))
        IN  /\ op' = [name |-> "cli.remove_node", id |-> id]
            /\ pre' = Graph
            /\ UNCHANGED sub
            /\ IF ~ HasNode(g.nodes, id)
               THEN /\ err' = NodeNotFoundError
                    /\ ret' = Echo("Error")
                    /\ UNCHANGED <<nodes, edges, metadata>>
               ELSE /\ err' = NoError
                    /\ ret' = Echo("Removed node")
                    /\ nodes' = SelectSeq(g.nodes, LAMBDA n : n.id # id)
                    /\ edges' = RemoveNodeEdges(g.edges, id)
                    /\ metadata' = g.metadata

\* `frctl graph remove-edge SOURCE TARGET`: load, remove_edge, save
CliRemoveEdge ==
    \E s \in NodeIds, t \in NodeIds :
        LET g == FromDict(ToDict(Graph))
        IN  /\ op' = [name |-> "cli.remove_edge", source |-> s, target |-> t]
            /\ pre' = Graph
            /\ UNCHANGED sub
            /\ err' = NoError
            /\ ret' = Echo("Removed edge")
            /\ nodes' = g.nodes
            /\ edges' = RemoveEdgeMatches(g.edges, s, t)
            /\ metadata' = g.metadata

Next ==
    \/ AddNode
    \/ AddEdge
    \/ RemoveNode
    \/ RemoveEdge
    \/ TopologicalSort
    \/ GetAncestors
    \/ GetDescendants
    \/ ExtractSubgraph
    \/ SetMetadata
    \/ Validate
    \/ CallToDict
    \/ CallMerkleHash
    \/ CallFromDict
    \/ CallDepth
    \/ KeepSubgraph
    \/ SubAddNode
    \/ SubAddEdge
    \/ SubRemoveNode
    \/ SubRemoveEdge
    \/ SetNodeMetadata
    \/ SetEdgeMetadata
    \/ SubSetNodeMetadata
    \/ SubSetEdgeMetadata
    \/ GetNode
    \/ GetEdge
    \/ AddEdgeBuilt
    \/ CallNodeCount
    \/ CallEdgeCount
    \/ CallFromDictRaw
    \/ SetMetadataItem
    \/ AddNodeRaw
    \/ AddEdgeRaw
    \/ CallGeneratePurl
    \/ AddNamedNode
    \/ CliAddNode
    \/ KeepEdge
    \/ RetryAddEdge
    \/ CallTopologicalSort
    \/ CallFromDictKeyed
    \/ CliAddEdge
    \/ CliRemoveNode
    \/ CliRemoveEdge

Spec == Init /\ [][Next]_vars

\* The callers below use a part of the interface each; every one of them may
\* make any sequence of add_node, add_edge, remove_node and remove_edge
\* calls, so each reaches every graph that Spec reaches.

\* a caller that only changes the graph
NextMutate ==
    \/ AddNode
    \/ AddEdge
    \/ RemoveNode
    \/ RemoveEdge
    \/ SetMetadata

SpecMutate == Init /\ [][NextMutate]_vars

\* a caller that changes the graph and sorts it
NextSort ==
    \/ AddNode
    \/ AddEdge
    \/ RemoveNode
    \/ RemoveEdge
    \/ TopologicalSort

SpecSort == Init /\ [][NextSort]_vars

\* a caller that changes the graph and asks for ancestors, descendants and
\* subgraphs
NextLookup ==
    \/ AddNode
    \/ AddEdge
    \/ RemoveNode
    \/ RemoveEdge
    \/ GetAncestors
    \/ GetDescendants
    \/ ExtractSubgraph

SpecLookup == Init /\ [][NextLookup]_vars

\* a caller that changes the graph and looks up nodes and edges
NextGet ==
    \/ AddNode
    \/ AddEdge
    \/ RemoveNode
    \/ RemoveEdge
    \/ GetNode
    \/ GetEdge

SpecGet == Init /\ [][NextGet]_vars

\* a caller that changes the graph, reads documents and validates graphs
NextValidate ==
    \/ AddNode
    \/ AddEdge
    \/ RemoveNode
    \/ RemoveEdge
    \/ CallFromDict
    \/ Validate

SpecValidate == Init /\ [][NextValidate]_vars

\* a caller that changes the graph and serializes it
NextSerialize ==
    \/ AddNode
    \/ AddEdge
    \/ RemoveNode
    \/ RemoveEdge
    \/ SetMetadata
    \/ CallToDict
    \/ CallMerkleHash

SpecSerialize == Init /\ [][NextSerialize]_vars

\* a caller that changes the graph and reads documents
NextLoad ==
    \/ AddNode
    \/ AddEdge
    \/ RemoveNode
    \/ RemoveEdge
    \/ SetMetadata
    \/ CallFromDict

SpecLoad == Init /\ [][NextLoad]_vars

\* A caller that builds a graph, extracts a subgraph and keeps it, and makes
\* one more call on the graph or on the subgraph (or writes into the
\* metadata of one of their nodes or edges).
Fresh == sub # NoValue /\ op.name = "extract_subgraph"

NextSubgraph ==
    \/ (sub = NoValue /\ ExtractSubgraph)
    \/ KeepSubgraph
    \/ ((sub = NoValue \/ Fresh) /\ AddNode)
    \/ ((sub = NoValue \/ Fresh) /\ AddEdge)
    \/ ((sub = NoValue \/ Fresh) /\ RemoveNode)
    \/ ((sub = NoValue \/ Fresh) /\ RemoveEdge)
    \/ (Fresh /\ SetNodeMetadata)
    \/ (Fresh /\ SetEdgeMetadata)
    \/ (Fresh /\ SubAddNode)
    \/ (Fresh /\ SubAddEdge)
    \/ (Fresh /\ SubRemoveNode)
    \/ (Fresh /\ SubRemoveEdge)
    \/ (Fresh /\ SubSetNodeMetadata)
    \/ (Fresh /\ SubSetEdgeMetadata)

SpecSubgraph == Init /\ [][NextSubgraph]_vars

\* the queries of the graph
QueryCalls ==
    {"topological_sort", "get_ancestors", "get_descendants", "extract_subgraph",
     "validate", "depth", "node_count", "edge_count", "to_dict", "merkle_hash"}

\* the query q is made after a call that is not a query, or after q itself
Asks(q) == op.name \notin QueryCalls \/ op.name = q

\* a caller that builds a graph and then hands from_dict a document
NextMalformed ==
    \/ op.name # "from_dict" /\ AddNode
    \/ op.name # "from_dict" /\ AddEdge
    \/ op.name # "from_dict" /\ CallFromDictRaw

SpecMalformed == Init /\ [][NextMalformed]_vars

\* a caller that has built a graph, writes metadata keys and asks for the
\* dictionary
NextCanonical ==
    \/ op.name \in {"init", "set_metadata_item"} /\ SetMetadataItem
    \/ op.name \in {"init", "set_metadata_item"} /\ CallToDict

SpecCanonical == InitDepth /\ [][NextCanonical]_vars

\* a caller that constructs nodes and edges from id strings as typed
NextIds ==
    \/ AddNodeRaw
    \/ AddEdgeRaw
    \/ RemoveNode
    \/ RemoveEdge

SpecIds == Init /\ [][NextIds]_vars

\* a caller that asks for the ids of names
NextPurl == CallGeneratePurl

SpecPurl == Init /\ [][NextPurl]_vars

\* nodes are made from names, by a program and on the command line
NextNames ==
    \/ AddNamedNode
    \/ CliAddNode

SpecNames == Init /\ [][NextNames]_vars

\* a caller that has built a graph removes a node and then adds a node
NextReadd ==
    \/ op.name = "init" /\ RemoveNode
    \/ op.name = "remove_node" /\ AddNode

SpecReadd == InitDepth /\ [][NextReadd]_vars

\* the calls that remove
Removals == {"remove_node", "remove_edge"}

\* a removal follows the rejection of the kept edge
MayRemove ==
    /\ sub.kind = "object"
    /\ op.name = "add_edge"
    /\ err = CycleDetectedError

\* a caller that has built a graph tries an edge, which is rejected for a
\* cycle, and as long as it is rejected removes a node or the edges of a pair
\* and tries the same edge again
NextRetry ==
    \/ op.name = "init" /\ AddEdgeBuilt
    \/ KeepEdge
    \/ MayRemove /\ RemoveNode
    \/ MayRemove /\ RemoveEdge
    \/ op.name \in Removals /\ RetryAddEdge

SpecRetry == InitDepth /\ [][NextRetry]_vars

\* the caller has neither loaded a document nor sorted yet
Building == op.name \notin {"from_dict", "topological_sort"}

\* a caller that builds a graph, then loads documents and sorts the graph
\* and what it has loaded
NextDefensive ==
    \/ Building /\ AddNode
    \/ Building /\ AddEdge
    \/ Building /\ RemoveNode
    \/ Building /\ RemoveEdge
    \/ CallFromDict
    \/ CallTopologicalSort

SpecDefensive == Init /\ [][NextDefensive]_vars

\* a caller that builds a graph and then hands from_dict a document
NextKeyed ==
    \/ op.name # "from_dict" /\ AddNode
    \/ op.name # "from_dict" /\ AddEdge
    \/ op.name # "from_dict" /\ RemoveNode
    \/ op.name # "from_dict" /\ RemoveEdge
    \/ op.name # "from_dict" /\ CallFromDictKeyed

SpecKeyed == Init /\ [][NextKeyed]_vars

\* one name for each generated id
PlainNames == {<<"a">>, <<"a", "_">>, <<"-">>}

\* a user who has run `frctl graph init` and runs graph commands; nodes are
\* added with one name for each id and with the type Service or an unknown
\* type
NextCli ==
    \/ CliAddNode /\ op'.arg \in PlainNames /\ op'.type \in {"Service", "Database"}
    \/ CliAddEdge
    \/ CliRemoveNode
    \/ CliRemoveEdge

SpecCli == Init /\ [][NextCli]_vars

\* a caller that adds to the graph and, between the additions, makes a query
\* once or several times in a row; validate() is also called on the graph
\* that extract_subgraph() has just returned
NextQuery ==
    \/ AddNode
    \/ AddEdge
    \/ Asks("topological_sort") /\ TopologicalSort
    \/ Asks("get_ancestors") /\ GetAncestors
    \/ Asks("get_descendants") /\ GetDescendants
    \/ Asks("extract_subgraph") /\ ExtractSubgraph
    \/ (Asks("validate") \/ op.name = "extract_subgraph") /\ Validate
    \/ Asks("depth") /\ CallDepth
    \/ Asks("node_count") /\ CallNodeCount
    \/ Asks("edge_count") /\ CallEdgeCount
    \/ Asks("to_dict") /\ CallToDict
    \/ Asks("merkle_hash") /\ CallMerkleHash

SpecQuery == Init /\ [][NextQuery]_vars

\* a caller that has built a graph and makes one call that changes it
NextBuilt ==
    \/ (op.name = "init" /\ AddEdgeBuilt)
    \/ (op.name = "init" /\ RemoveNode)
    \/ (op.name = "init" /\ RemoveEdge)

SpecBuilt == InitDepth /\ [][NextBuilt]_vars

\* a caller that has built a graph and takes its depth
NextDepth == CallDepth

SpecDepth == InitDepth /\ [][NextDepth]_vars

\* ====================================================================
\* Properties
\* ====================================================================

\* the edge list as a relation over node ids
EdgeRel(es) == {<<es[i].source, es[i].target>> : i \in 1..Len(es)}

RECURSIVE PathsFrom(_, _)
\* all pairs (a, c) joined by a non-empty directed path of R
PathsFrom(R, P) ==
    LET N == P \cup {<<p[1][1], p[2][2]>> : p \in {q \in P \X R : q[1][2] = q[2][1]}}
    IN  IF N = P THEN P ELSE PathsFrom(R, N)

Reach(es) == PathsFrom(EdgeRel(es), EdgeRel(es))

\* no node lies on a directed cycle (a self-loop is a cycle)
Acyclic(es) == \A n \in GraphIds : <<n, n>> \notin Reach(es)

\* number of occurrences of e in the list es
Count(es, e) == Cardinality({i \in 1..Len(es) : es[i] = e})

\* position of x in the list l (0 when absent)
IndexOf(l, x) == IF InSeq(x, l) THEN CHOOSE i \in 1..Len(l) : l[i] = x ELSE 0

Incident(e, id) == e.source = id \/ e.target = id

Matches(e, s, t) == e.source = s /\ e.target = t

\* the call left nodes, edges and metadata as they were
GraphUnchanged == Graph = pre

\* C1: after any sequence of add_node, add_edge, remove_node and
\* remove_edge calls, successful or not, the edge list has no directed
\* cycle and no self-loop, and topological_sort() does not raise
\* CycleDetectedError.
C1_AcyclicAlways ==
    /\ Acyclic(edges)
    /\ op.name = "topological_sort" => err # CycleDetectedError

\* topological_sort() was called on a graph holding a two-edge path, after
\* which it returned all three nodes
C1_Witness ==
    /\ op.name = "topological_sort"
    /\ err = NoError
    /\ \E a, b, c \in NodeIds :
          /\ a # c
          /\ {<<a, b>>, <<b, c>>} \subseteq EdgeRel(edges)
    /\ Len(ret.list) = 3

\* C2: after any sequence of add_node, add_edge, remove_node and
\* remove_edge calls, every edge of the edge list has its source and its
\* target among the keys of nodes.
C2_NoDanglingEdge ==
    \A i \in 1..Len(edges) :
        /\ edges[i].source \in KeySet(nodes)
        /\ edges[i].target \in KeySet(nodes)

\* a node with incident edges was removed while another edge stayed
C2_Witness ==
    /\ op.name = "remove_node"
    /\ err = NoError
    /\ Len(pre.edges) = 2
    /\ Len(edges) = 1

\* C3: add_edge of an edge between present nodes that would close a cycle
\* (its target already reaches its source, or it is a self-loop) raises
\* CycleDetectedError and leaves nodes, the edge list and metadata as they
\* were.
C3_CycleRejectedUnchanged ==
    (/\ op.name = "add_edge"
     /\ op.edge.source \in KeySet(pre.nodes)
     /\ op.edge.target \in KeySet(pre.nodes)
     /\ \/ op.edge.source = op.edge.target
        \/ <<op.edge.target, op.edge.source>> \in Reach(pre.edges))
    => (err = CycleDetectedError /\ GraphUnchanged)

\* the edge closing a three-node cycle A->B->C->A was rejected
C3_Witness ==
    /\ op.name = "add_edge"
    /\ err = CycleDetectedError
    /\ Len(edges) = 2
    /\ <<op.edge.source, op.edge.target>> \notin EdgeRel(edges)
    /\ <<op.edge.target, op.edge.source>> \notin EdgeRel(edges)
    /\ op.edge.source # op.edge.target

\* C4: add_edge raises NodeNotFoundError whenever the source or the target
\* of the edge is not a key of nodes, also for a self-loop on an absent
\* node, and then leaves nodes, the edge list and metadata as they were.
C4_MissingNodeRejected ==
    (/\ op.name = "add_edge"
     /\ \/ op.edge.source \notin KeySet(pre.nodes)
        \/ op.edge.target \notin KeySet(pre.nodes))
    => (err = NodeNotFoundError /\ GraphUnchanged)

\* a self-loop on an absent node was rejected with NodeNotFoundError on a
\* graph that has edges
C4_Witness ==
    /\ op.name = "add_edge"
    /\ err = NodeNotFoundError
    /\ op.edge.source = op.edge.target
    /\ Len(edges) > 0

\* C5: add_node raises the duplicate-node error when node.id is already a
\* key of nodes and then leaves the stored node and the whole graph as they
\* were; otherwise it stores exactly that node under node.id, keeps every
\* other node and the edge list, and the node count grows by exactly 1.
C5_AddNodeContract ==
    op.name = "add_node" =>
        IF op.node.id \in KeySet(pre.nodes)
        THEN /\ err = DuplicateNodeError
             /\ GraphUnchanged
        ELSE /\ err = NoError
             /\ Len(nodes) = Len(pre.nodes) + 1
             /\ KeySet(nodes) = KeySet(pre.nodes) \cup {op.node.id}
             /\ NodeAt(nodes, op.node.id) = op.node
             /\ \A k \in KeySet(pre.nodes) : NodeAt(nodes, k) = NodeAt(pre.nodes, k)
             /\ edges = pre.edges
             /\ metadata = pre.metadata

\* a node of another type was offered under an id already in use, on a
\* graph with edges
C5_Witness ==
    /\ op.name = "add_node"
    /\ err = DuplicateNodeError
    /\ NodeAt(nodes, op.node.id) # op.node
    /\ Len(edges) > 0

\* C6: a successful remove_node(id) removes the node id and exactly the
\* edges whose source or target is id: no remaining edge mentions id, every
\* edge not incident to id is still there as often as before, and all other
\* nodes are as they were.
C6_RemoveNodeCascades ==
    (op.name = "remove_node" /\ err = NoError) =>
        /\ op.id \in KeySet(pre.nodes)
        /\ KeySet(nodes) = KeySet(pre.nodes) \ {op.id}
        /\ Len(nodes) = Len(pre.nodes) - 1
        /\ \A k \in KeySet(nodes) : NodeAt(nodes, k) = NodeAt(pre.nodes, k)
        /\ \A i \in 1..Len(edges) : ~ Incident(edges[i], op.id)
        /\ \A i \in 1..Len(pre.edges) :
              ~ Incident(pre.edges[i], op.id)
                  => Count(edges, pre.edges[i]) = Count(pre.edges, pre.edges[i])
        /\ Len(edges) = Cardinality({i \in 1..Len(pre.edges) : ~ Incident(pre.edges[i], op.id)})

\* the middle node of a path A->B->C was removed: 2 nodes and 0 edges remain
C6_Witness ==
    /\ op.name = "remove_node"
    /\ err = NoError
    /\ Len(pre.nodes) = 3
    /\ Len(pre.edges) = 2
    /\ pre.edges[1].target = op.id
    /\ pre.edges[2].source = op.id
    /\ Len(nodes) = 2
    /\ Len(edges) = 0

\* C7: remove_node, get_ancestors and get_descendants of an id that is not
\* in the graph, and extract_subgraph of a list with at least one such id,
\* raise NodeNotFoundError, return nothing and leave the graph as it was.
C7_AbsentNodeRejected ==
    (\/ /\ op.name \in {"remove_node", "get_ancestors", "get_descendants"}
        /\ op.id \notin KeySet(pre.nodes)
     \/ /\ op.name = "extract_subgraph"
        /\ \E i \in 1..Len(op.ids) : op.ids[i] \notin KeySet(pre.nodes))
    => (err = NodeNotFoundError /\ ret = NoValue /\ GraphUnchanged)

\* extract_subgraph was given a present id followed by an absent one
C7_Witness ==
    /\ op.name = "extract_subgraph"
    /\ err = NodeNotFoundError
    /\ Len(op.ids) = 2
    /\ op.ids[1] \in KeySet(nodes)
    /\ op.ids[2] \notin KeySet(nodes)

\* C8: remove_edge(source, target) never raises; it removes every edge with
\* exactly that (source, target) pair, whatever its kind and however often
\* it occurs, keeps every other edge and all nodes and metadata, and
\* changes nothing when no edge matches (also when source or target is not
\* a node).
C8_RemoveEdgeContract ==
    op.name = "remove_edge" =>
        /\ err = NoError
        /\ nodes = pre.nodes
        /\ metadata = pre.metadata
        /\ \A i \in 1..Len(edges) : ~ Matches(edges[i], op.source, op.target)
        /\ \A i \in 1..Len(pre.edges) :
              ~ Matches(pre.edges[i], op.source, op.target)
                  => Count(edges, pre.edges[i]) = Count(pre.edges, pre.edges[i])
        /\ Len(edges) = Cardinality({i \in 1..Len(pre.edges) :
                                        ~ Matches(pre.edges[i], op.source, op.target)})
        /\ (\A i \in 1..Len(pre.edges) : ~ Matches(pre.edges[i], op.source, op.target))
              => edges = pre.edges

\* one call removed two edges of different kinds between the same pair
C8_Witness ==
    /\ op.name = "remove_edge"
    /\ Len(pre.edges) = 2
    /\ pre.edges[1].edge_type # pre.edges[2].edge_type
    /\ Len(edges) = 0

\* C9: topological_sort() returns every node id of the graph exactly once
\* (isolated nodes included, [] for the empty graph), and for every edge
\* (u, v) the id u stands before the id v.
C9_TopologicalOrder ==
    op.name = "topological_sort" =>
        /\ err = NoError
        /\ ret.kind = "list"
        /\ Len(ret.list) = Len(nodes)
        /\ Range(ret.list) = KeySet(nodes)
        /\ \A i \in 1..Len(edges) :
              IndexOf(ret.list, edges[i].source) < IndexOf(ret.list, edges[i].target)

\* the sort had to reorder: three nodes, one of them isolated, and an edge
\* whose target was inserted before its source
C9_Witness ==
    /\ op.name = "topological_sort"
    /\ err = NoError
    /\ Len(nodes) = 3
    /\ Len(edges) = 1
    /\ IndexOf(NodeKeys(nodes), edges[1].target) < IndexOf(NodeKeys(nodes), edges[1].source)
    /\ ret.list # NodeKeys(nodes)

RECURSIVE SortedSeq(_)
\* the ids of S in ascending order
SortedSeq(S) ==
    IF S = {} THEN <<>>
    ELSE LET m == CHOOSE x \in S : \A y \in S : x <= y
         IN  <<m>> \o SortedSeq(S \ {m})

\* the networkx graph of the same content with nodes and edges inserted in
\* ascending order
AscendingNxGraph(N, R) ==
    [nodes |-> SortedSeq(N \cup {p[1] : p \in R} \cup {p[2] : p \in R}),
     adj |-> [n \in GraphIds |-> SortedSeq({v \in GraphIds : <<n, v>> \in R})]]

\* C10: the order topological_sort() returns depends on the node set and
\* the edge set only, not on the order of insertion: it is the order
\* obtained when nodes and edges are inserted in ascending order, so that
\* nodes without an ordering constraint come in ascending id order.
C10_InsertionOrderIndependent ==
    (op.name = "topological_sort" /\ err = NoError) =>
        ret.list = NxTopologicalSort(AscendingNxGraph(KeySet(nodes), EdgeRel(edges)))

\* C11: for an existing node id, get_ancestors(id) returns exactly the nodes
\* from which a non-empty directed path leads to id, id itself excluded,
\* each exactly once, and for every edge (u, v) between two returned nodes
\* u stands before v.
C11_AncestorsExactAndOrdered ==
    (op.name = "get_ancestors" /\ err = NoError) =>
        /\ ret.kind = "list"
        /\ Range(ret.list) = {n \in KeySet(nodes) : <<n, op.id>> \in Reach(edges)}
        /\ Len(ret.list) = Cardinality(Range(ret.list))
        /\ op.id \notin Range(ret.list)
        /\ \A i \in 1..Len(edges) :
              (edges[i].source \in Range(ret.list) /\ edges[i].target \in Range(ret.list))
                  => IndexOf(ret.list, edges[i].source) < IndexOf(ret.list, edges[i].target)

\* ancestors of the end of a path A->B->C whose middle node was inserted
\* before its first node: the result is [A, B]
C11_Witness ==
    /\ op.name = "get_ancestors"
    /\ err = NoError
    /\ Len(ret.list) = 2
    /\ <<ret.list[1], ret.list[2]>> \in EdgeRel(edges)
    /\ <<ret.list[2], op.id>> \in EdgeRel(edges)
    /\ IndexOf(NodeKeys(nodes), ret.list[2]) < IndexOf(NodeKeys(nodes), ret.list[1])

\* C12: for an existing node id, get_descendants(id) returns exactly the
\* nodes reachable from id by a non-empty directed path, id itself
\* excluded, each exactly once.
C12_DescendantsExact ==
    (op.name = "get_descendants" /\ err = NoError) =>
        /\ ret.kind = "list"
        /\ Range(ret.list) = {n \in KeySet(nodes) : <<op.id, n>> \in Reach(edges)}
        /\ Len(ret.list) = Cardinality(Range(ret.list))
        /\ op.id \notin Range(ret.list)

\* descendants of the start of a path A->B->C: B and C
C12_Witness ==
    /\ op.name = "get_descendants"
    /\ err = NoError
    /\ Len(ret.list) = 2
    /\ \E b \in Range(ret.list), c \in Range(ret.list) :
          /\ <<op.id, b>> \in EdgeRel(edges)
          /\ <<b, c>> \in EdgeRel(edges)
          /\ <<op.id, c>> \notin EdgeRel(edges)

\* C13: for existing ids, extract_subgraph(ids) returns a graph whose node
\* set is exactly the set of the given ids, each node equal to the
\* original's, and whose edge list is the original edge list restricted to
\* the edges with both ends among the ids (same multiplicity, same relative
\* order); the result is acyclic and has no dangling edge.
C13_SubgraphExact ==
    (op.name = "extract_subgraph" /\ err = NoError) =>
        /\ ret.kind = "graph"
        /\ KeySet(ret.graph.nodes) = Range(op.ids)
        /\ Len(ret.graph.nodes) = Cardinality(Range(op.ids))
        /\ \A k \in Range(op.ids) : NodeAt(ret.graph.nodes, k) = NodeAt(nodes, k)
        /\ ret.graph.edges =
              SelectSeq(edges, LAMBDA e : e.source \in Range(op.ids) /\ e.target \in Range(op.ids))
        /\ Acyclic(ret.graph.edges)
        /\ \A i \in 1..Len(ret.graph.edges) :
              /\ ret.graph.edges[i].source \in KeySet(ret.graph.nodes)
              /\ ret.graph.edges[i].target \in KeySet(ret.graph.nodes)

\* two of three nodes were extracted from a path A->B->C: one edge is in the
\* subgraph, the other is not
C13_Witness ==
    /\ op.name = "extract_subgraph"
    /\ err = NoError
    /\ Len(nodes) = 3
    /\ Len(edges) = 2
    /\ edges[1].target = edges[2].source
    /\ Len(ret.graph.nodes) = 2
    /\ Len(ret.graph.edges) = 1

\* every edge of the graph g has both its ends among the keys of g.nodes
NoDanglingEdge(g) ==
    \A i \in 1..Len(g.edges) :
        g.edges[i].source \in KeySet(g.nodes) /\ g.edges[i].target \in KeySet(g.nodes)

\* C15: validate() never raises; the list it returns is empty if and only
\* if the edge set is acyclic and both ends of every edge are keys of nodes;
\* and validate() of the graph itself, which is reached from the empty graph
\* through add_node, add_edge, remove_node and remove_edge alone, is empty.
C15_ValidateExact ==
    (op.name = "validate") =>
        /\ err = NoError
        /\ ret.kind = "list"
        /\ (ret.list = <<>>) <=> (Acyclic(op.graph.edges) /\ NoDanglingEdge(op.graph))
        /\ (op.self = "graph") => (ret.list = <<>>)

\* validate() of a graph read from a document whose two nodes depend on
\* each other reports the cycle, and nothing else
C15_Witness ==
    /\ op.name = "validate"
    /\ op.self = "returned"
    /\ NoDanglingEdge(op.graph)
    /\ Len(op.graph.edges) = 2
    /\ ret.list = <<[problem |-> "Graph contains cycles"]>>

\* the sequences of n + 1 node ids that follow n edges of es
PathsOfLength(es, n) ==
    {p \in [1..(n + 1) -> GraphIds] : \A i \in 1..n : <<p[i], p[i + 1]>> \in EdgeRel(es)}

\* the number of edges on a longest directed path of an acyclic edge list
LongestPath(es) ==
    CHOOSE n \in 0..Cardinality(GraphIds) :
        /\ PathsOfLength(es, n) # {}
        /\ \A m \in (n + 1)..Cardinality(GraphIds) : PathsOfLength(es, m) = {}

\* C16: depth() returns the number of edges on a longest directed path: 0
\* for a graph without edges (the empty graph too), 2 for the chain
\* 1->2->3, 2 for the diamond 1->2, 1->3, 2->4, 3->4, whatever the number of
\* parallel edges between a pair.
C16_DepthIsLongestPath ==
    (op.name = "depth") =>
        /\ err = NoError
        /\ ret.kind = "int"
        /\ ret.int = LongestPath(edges)
        /\ (edges = <<>>) => (ret.int = 0)
        /\ (EdgeRel(edges) = {<<1, 2>>, <<2, 3>>}) => (ret.int = 2)
        /\ (EdgeRel(edges) = {<<1, 2>>, <<1, 3>>, <<2, 4>>, <<3, 4>>}) => (ret.int = 2)

\* the depth of the diamond was taken, with its nodes inserted in an order
\* that is not a topological one
C16_Witness ==
    /\ op.name = "depth"
    /\ NodeKeys(nodes) = <<2, 4, 1, 3>>
    /\ EdgeRel(edges) = {<<1, 2>>, <<1, 3>>, <<2, 4>>, <<3, 4>>}
    /\ ret = IntValue(2)

\* the lists that hold the elements of s, each as often as s does, in any order
Reorderings(s) ==
    {t \in [1..Len(s) -> Range(s)] : \A x \in Range(s) : Count(t, x) = Count(s, x)}

\* the graphs of the same content as the graph, with nodes and edges inserted
\* in any order
SameContentGraphs ==
    {[nodes |-> ns, edges |-> es, metadata |-> metadata] :
        ns \in Reorderings(nodes), es \in Reorderings(edges)}

\* C17: to_dict() and merkle_hash() of the graph are those of every graph
\* with the same nodes, edges and metadata inserted in another order, also
\* when several edges share their (source, target) pair and differ in kind.
C17_CanonicalFormOrderIndependent ==
    /\ (op.name = "to_dict") => \A g \in SameContentGraphs : ToDict(g) = ret.dict
    /\ (op.name = "merkle_hash") => \A g \in SameContentGraphs : MerkleHash(g) = ret.hash

\* the last call changed the content of the graph: a successful add_node,
\* add_edge or remove_node, a remove_edge that removed an edge, or a write to
\* the graph metadata
ContentChanged ==
    \/ (op.name \in {"add_node", "add_edge", "remove_node"} /\ err = NoError)
    \/ (op.name = "remove_edge" /\ edges # pre.edges)
    \/ op.name = "set_metadata"

\* C18: after every content change the canonical form to_dict() differs
\* from the one before the change, and so does merkle_hash().
C18_ContentChangeChangesHash ==
    ContentChanged =>
        /\ ToDict(Graph) # ToDict(pre)
        /\ MerkleHash(Graph) # MerkleHash(pre)

\* an edge equal to one the graph holds already was added
C18_Witness ==
    /\ op.name = "add_edge"
    /\ err = NoError
    /\ Count(pre.edges, op.edge) = 1
    /\ Count(edges, op.edge) = 2

\* from_dict(to_dict(g)), with the model's operators
RoundTrip(g) == FromDict(ToDict(g))

\* C19: the graph from_dict returns for the dictionary of the graph (the
\* graph load returns for the file save wrote) has the same node ids with
\* equal nodes, the same multiset of edges and the same metadata, its
\* to_dict() and merkle_hash() are those of the graph, and a second round
\* trip returns it again.
C19_RoundTrip ==
    (op.name = "from_dict" /\ op.doc = ToDict(Graph)) =>
        /\ err = NoError
        /\ ret.kind = "graph"
        /\ KeySet(ret.graph.nodes) = KeySet(nodes)
        /\ Len(ret.graph.nodes) = Len(nodes)
        /\ \A k \in KeySet(nodes) : NodeAt(ret.graph.nodes, k) = NodeAt(nodes, k)
        /\ Len(ret.graph.edges) = Len(edges)
        /\ \A e \in Range(edges) : Count(ret.graph.edges, e) = Count(edges, e)
        /\ ret.graph.metadata = metadata
        /\ ToDict(ret.graph) = ToDict(Graph)
        /\ MerkleHash(ret.graph) = MerkleHash(Graph)
        /\ RoundTrip(ret.graph) = ret.graph

\* a graph with metadata whose nodes and edges are not held in canonical
\* order went through the round trip: the result holds them in another order
C19_Witness ==
    /\ op.name = "from_dict"
    /\ op.doc = ToDict(Graph)
    /\ metadata = VersionMetadata
    /\ Len(edges) = 2
    /\ ret.graph.nodes # nodes
    /\ ret.graph.edges # edges

\* C20: from_dict (and load) rejects a document whose edges form a cycle or
\* name a node that is not among its nodes: every graph it returns is
\* acyclic and has no dangling edge.
C20_LoadedGraphIsValid ==
    (op.name = "from_dict" /\ ret.kind = "graph") =>
        /\ Acyclic(ret.graph.edges)
        /\ NoDanglingEdge(ret.graph)

\* the calls made on the kept subgraph
SubgraphCalls ==
    {"subgraph.add_node", "subgraph.add_edge", "subgraph.remove_node",
     "subgraph.remove_edge", "subgraph.set_node_metadata", "subgraph.set_edge_metadata"}

\* the calls made on the graph that may change it
GraphCalls ==
    {"add_node", "add_edge", "remove_node", "remove_edge",
     "set_node_metadata", "set_edge_metadata"}

\* C14: extract_subgraph leaves the graph unchanged; while the caller keeps
\* the subgraph, a call on the graph (add_node, add_edge, remove_node,
\* remove_edge, a write into the metadata of a node or an edge) leaves the
\* nodes, edges and metadata of the subgraph unchanged, and a call on the
\* subgraph leaves those of the graph unchanged.
C14_SubgraphIndependent ==
    [][/\ (op'.name = "extract_subgraph") => (Graph' = Graph)
       /\ (sub # NoValue /\ sub' # NoValue /\ op'.name \in GraphCalls)
              => (sub'.graph = sub.graph)
       /\ (sub # NoValue /\ sub' # NoValue /\ op'.name \in SubgraphCalls)
              => (Graph' = Graph)]_vars

\* the metadata of a node that is in the kept subgraph too was written in
\* the graph: the two nodes differ now
C14_Witness ==
    /\ sub # NoValue
    /\ op.name = "set_node_metadata"
    /\ op.id \in KeySet(sub.graph.nodes)
    /\ Len(sub.graph.edges) > 0
    /\ NodeAt(nodes, op.id).metadata = WrittenMetadata
    /\ NodeAt(sub.graph.nodes, op.id).metadata = "none"

\* C26: get_node and get_edge never raise and leave the graph unchanged;
\* get_node returns the stored node of a present id and nothing otherwise;
\* get_edge returns the earliest-inserted edge with exactly the given
\* (source, target) pair and nothing when there is none.
C26_LookupsArePure ==
    /\ (op.name \in {"get_node", "get_edge"}) => (err = NoError /\ GraphUnchanged)
    /\ (op.name = "get_node") =>
          IF op.id \in KeySet(nodes)
          THEN ret.kind = "object" /\ ret.object \in Range(nodes) /\ ret.object.id = op.id
          ELSE ret = NoValue
    /\ (op.name = "get_edge") =>
          IF \E i \in 1..Len(edges) : Matches(edges[i], op.source, op.target)
          THEN /\ ret.kind = "object"
               /\ Matches(ret.object, op.source, op.target)
               /\ \E i \in 1..Len(edges) :
                     /\ edges[i] = ret.object
                     /\ \A j \in 1..(i - 1) : ~ Matches(edges[j], op.source, op.target)
          ELSE ret = NoValue

\* get_edge on a pair that carries two edges of different kinds
C26_Witness ==
    /\ op.name = "get_edge"
    /\ Len(edges) = 2
    /\ edges[1] # edges[2]
    /\ Matches(edges[1], op.source, op.target)
    /\ Matches(edges[2], op.source, op.target)
    /\ ret = ObjectValue(edges[1])

\* C27: add_edge(s -> t) with both ends in the graph is refused with
\* CycleDetectedError if and only if s = t or t reaches s along the edges
\* the graph holds; every other such edge (each edge of the diamond 1->2,
\* 1->3, 2->4, 3->4 among them) is appended.
C27_CycleTestIsReachability ==
    (/\ op.name = "add_edge"
     /\ op.edge.source \in KeySet(pre.nodes)
     /\ op.edge.target \in KeySet(pre.nodes)) =>
        /\ (err = CycleDetectedError) <=>
              (\/ op.edge.source = op.edge.target
               \/ <<op.edge.target, op.edge.source>> \in Reach(pre.edges))
        /\ (err # CycleDetectedError) => (err = NoError /\ edges = Append(pre.edges, op.edge))

\* the fourth edge of the diamond was added
C27_Witness ==
    /\ op.name = "add_edge"
    /\ err = NoError
    /\ Len(pre.edges) = 3
    /\ Len(edges) = 4
    /\ EdgeRel(edges) = {<<1, 2>>, <<1, 3>>, <<2, 4>>, <<3, 4>>}

\* C28: add_edge of an edge whose (source, target) pair an edge of the graph
\* has already succeeds, whether the kinds are equal or not, appends one more
\* entry and raises edge_count() by exactly 1.
C28_DuplicateEdgesAreKept ==
    (/\ op.name = "add_edge"
     /\ \E i \in 1..Len(pre.edges) :
           Matches(pre.edges[i], op.edge.source, op.edge.target)) =>
        /\ err = NoError
        /\ EdgeCount(Graph) = EdgeCount(pre) + 1
        /\ Count(edges, op.edge) = Count(pre.edges, op.edge) + 1
        /\ edges[Len(edges)] = op.edge

\* an edge was added a third time to a pair that carries an edge of another
\* kind as well
C28_Witness ==
    /\ op.name = "add_edge"
    /\ err = NoError
    /\ Count(pre.edges, op.edge) = 2
    /\ Count(edges, op.edge) = 3
    /\ \E i \in 1..Len(pre.edges) :
          /\ Matches(pre.edges[i], op.edge.source, op.edge.target)
          /\ pre.edges[i].edge_type # op.edge.edge_type

\* a is b with some of its elements left out, the others in b's order
IsSubsequence(a, b) ==
    \E f \in [1..Len(a) -> 1..Len(b)] :
        /\ \A i \in 1..Len(a) : a[i] = b[f[i]]
        /\ \A i, j \in 1..Len(a) : (i < j) => (f[i] < f[j])

\* C29: a successful add_edge appends the edge behind the edges the list
\* held, which keep their order; remove_node and remove_edge leave the
\* remaining edges in the order they had.
C29_EdgeOrderPreserved ==
    /\ (op.name = "add_edge" /\ err = NoError) =>
          /\ Len(edges) = Len(pre.edges) + 1
          /\ SubSeq(edges, 1, Len(pre.edges)) = pre.edges
          /\ edges[Len(edges)] = op.edge
    /\ (op.name \in {"remove_node", "remove_edge"}) =>
          /\ IsSubsequence(edges, pre.edges)
          /\ \A e \in Range(pre.edges) :
                Count(edges, e) = Count(pre.edges, e) \/ Count(edges, e) = 0

\* remove_edge took the first and the third of four edges away, two
\* different edges stay
C29_Witness ==
    /\ op.name = "remove_edge"
    /\ Len(pre.edges) = 4
    /\ Matches(pre.edges[1], op.source, op.target)
    /\ Matches(pre.edges[3], op.source, op.target)
    /\ edges = <<pre.edges[2], pre.edges[4]>>
    /\ pre.edges[2] # pre.edges[4]

\* C30: every query leaves nodes, edges and metadata as they were, and a
\* query made twice in a row (same arguments, no call in between) ends the
\* same way and returns the same value both times.
C30_QueriesAreReadOnly ==
    /\ []((op.name \in QueryCalls) => GraphUnchanged)
    /\ [][(op'.name \in QueryCalls /\ op' = op) => (ret' = ret /\ err' = err)]_vars

\* merkle_hash() of a graph whose two edges are not held in canonical order
C30_Witness ==
    /\ op.name = "merkle_hash"
    /\ Len(edges) = 2
    /\ SortedEdges(edges) # edges
    /\ ret = HashValue(MerkleHash(pre))

\* the item names every required field and a known type
NodeWellFormed(item) ==
    /\ {"id", "type", "name"} \subseteq item.present
    /\ item.data.type \in {"Service", "Library", "Schema", "Endpoint", "Component"}

EdgeWellFormed(item) ==
    /\ {"source", "target", "edge_type"} \subseteq item.present
    /\ item.data.edge_type \in {"DEPENDS_ON", "CONSUMES", "OWNS", "IMPLEMENTS"}

Defective(doc) ==
    \/ \E i \in 1..Len(doc.nodes) : ~NodeWellFormed(doc.nodes[i])
    \/ \E i \in 1..Len(doc.edges) : ~EdgeWellFormed(doc.edges[i])

\* C21: from_dict of a document in which some node has an unknown type, some
\* edge has an unknown edge_type, or some node or edge lacks a required
\* field, raises and returns no graph, not even one of the valid entries; the
\* graph of the caller is untouched.
C21_MalformedDocumentRejected ==
    (op.name = "from_dict" /\ Defective(op.doc))
        => (err = ValidationError /\ ret = NoValue /\ GraphUnchanged)

\* a document whose first node is valid and whose second has an unknown type
C21_Witness ==
    /\ op.name = "from_dict"
    /\ Len(op.doc.nodes) = 2
    /\ Len(op.doc.edges) = 1
    /\ NodeWellFormed(op.doc.nodes[1])
    /\ op.doc.nodes[2].data.type = "Database"
    /\ EdgeWellFormed(op.doc.edges[1])
    /\ err = ValidationError

\* C22: the dictionary to_dict() returns lists the nodes in ascending order
\* of id, the edges in ascending order of (source, target) and the metadata
\* keys in ascending order, whatever the order in which nodes, edges and
\* keys were put into the graph.
C22_ToDictIsSorted ==
    (op.name = "to_dict") =>
        LET d == ret.dict
        IN  /\ \A i, j \in 1..Len(d.nodes) : i < j => d.nodes[i].key < d.nodes[j].key
            /\ \A i, j \in 1..Len(d.edges) :
                  i < j => ~(\/ d.edges[j].source < d.edges[i].source
                             \/ /\ d.edges[j].source = d.edges[i].source
                                /\ d.edges[j].target < d.edges[i].target)
            /\ \A i, j \in 1..Len(d.metadata) :
                  i < j => KeyLess(d.metadata[i].key, d.metadata[j].key)
            /\ {d.nodes[i].key : i \in 1..Len(d.nodes)} = KeySet(nodes)
            /\ Len(d.edges) = Len(edges)
            /\ Range(d.metadata) = Range(metadata)

\* to_dict() of a graph whose nodes, edges and metadata keys were all put in
\* in descending order
C22_Witness ==
    /\ op.name = "to_dict"
    /\ Len(nodes) >= 2 /\ nodes[2].id < nodes[1].id
    /\ Len(edges) >= 2 /\ EdgeKeyLess(edges[2], edges[1])
    /\ Len(metadata) = 3 /\ KeyLess(metadata[3].key, metadata[2].key)
    /\ KeyLess(metadata[2].key, metadata[1].key)

\* the string without its leading and trailing spaces
Trimmed(s) ==
    LET inked == {i \in 1..Len(s) : s[i] # " "}
    IN  IF inked = {} THEN <<>>
        ELSE SubSeq(s, CHOOSE i \in inked : \A j \in inked : i <= j,
                       CHOOSE i \in inked : \A j \in inked : j <= i)

\* the node of graph g whose id is the string s
HoldsId(g, s) == \E i \in 1..Len(g.nodes) : g.nodes[i].id = IdNumber(s)

\* C25: a node or edge whose id string is empty or all whitespace is not
\* constructed; every other id is stored trimmed, so add_node of an id that
\* differs from a held id only by surrounding whitespace fails as duplicate,
\* and add_edge finds the nodes of endpoints given with surrounding
\* whitespace.
C25_IdsAreTrimmed ==
    /\ (op.name = "Node") =>
          (Trimmed(op.raw) = <<>> /\ err = ValidationError /\ GraphUnchanged)
    /\ (op.name = "Edge") =>
          /\ Trimmed(op.rawSource) = <<>> \/ Trimmed(op.rawTarget) = <<>>
          /\ err = ValidationError
          /\ GraphUnchanged
    /\ (op.name = "add_node") =>
          /\ Trimmed(op.raw) # <<>>
          /\ op.node.id = IdNumber(Trimmed(op.raw))
          /\ HoldsId(pre, Trimmed(op.raw)) => (err = DuplicateNodeError /\ GraphUnchanged)
    /\ (op.name = "add_edge") =>
          /\ Trimmed(op.rawSource) # <<>> /\ Trimmed(op.rawTarget) # <<>>
          /\ op.edge.source = IdNumber(Trimmed(op.rawSource))
          /\ op.edge.target = IdNumber(Trimmed(op.rawTarget))
          /\ (HoldsId(pre, Trimmed(op.rawSource)) /\ HoldsId(pre, Trimmed(op.rawTarget)))
                => err # NodeNotFoundError
    /\ \A i \in 1..Len(nodes) :
          \E s \in RawIds : s # <<>> /\ Trimmed(s) = s /\ nodes[i].id = IdNumber(s)

\* the edge from " a " to "b " is added to the graph of the nodes "a", "b"
C25_Witness ==
    /\ op.name = "add_edge"
    /\ op.rawSource = <<" ", "a", " ">>
    /\ op.rawTarget = <<"b", " ">>
    /\ err = NoError
    /\ edges = Append(pre.edges, op.edge)
    /\ HoldsId(Graph, <<"a">>) /\ HoldsId(Graph, <<"b">>)

RECURSIVE DropSeparators(_)
\* s without the spaces and underscores it starts with
DropSeparators(s) ==
    IF s # <<>> /\ Head(s) \in {" ", "_"} THEN DropSeparators(Tail(s)) ELSE s

RECURSIVE RunsToHyphen(_)
\* s with every run of one or more spaces or underscores replaced by one
\* hyphen
RunsToHyphen(s) ==
    IF s = <<>> THEN <<>>
    ELSE IF Head(s) \in {" ", "_"} THEN <<"-">> \o RunsToHyphen(DropSeparators(s))
    ELSE <<Head(s)>> \o RunsToHyphen(Tail(s))

\* the slug as described: lowercased, surrounding whitespace trimmed, runs
\* replaced
DescribedSlug(name) ==
    RunsToHyphen(Trimmed([i \in 1..Len(name) |-> IF name[i] = "A" THEN "a" ELSE name[i]]))

\* C23: the generated id is pkg:frctl/<slug>@local where the slug is the
\* name lowercased, trimmed, with every run of one or more spaces or
\* underscores replaced by a single hyphen; so names that differ only in
\* case, in the kind or length of a separator run, or in surrounding
\* whitespace get the same id.
C23_PurlNormalizesRuns ==
    (op.name = "generate_purl") =>
        ret.value = <<"pkg:frctl/">> \o DescribedSlug(op.arg) \o <<"@local">>

\* the calls that make a node from a name
NamedCalls == {"Node", "add_node", "cli.add_node"}

\* the id already belongs to a node of the graph the call found
IdTaken == \E k \in 1..Len(pre.nodes) : pre.nodes[k].id = PurlNumber(GeneratePurl(op.arg))

\* C24: when the id generated for a name belongs to a node that is in the
\* graph, adding a node made from that name is rejected, by add_node and by
\* the add-node command alike, and the graph keeps the first node with its
\* type, name and metadata; nothing is merged.
C24_NameCollisionRejected ==
    (op.name \in NamedCalls /\ IdTaken) =>
        /\ err # NoError
        /\ nodes = pre.nodes
        /\ GraphUnchanged

\* the command is given "a_" with type Library when the graph holds the
\* Service node made from the name "a " (stored stripped)
C24_Witness ==
    /\ op.name = "cli.add_node"
    /\ op.arg = <<"a", "_">>
    /\ op.type = "Library"
    /\ err = AlreadyExists
    /\ \E k \in 1..Len(nodes) :
          /\ nodes[k].name = <<"a">>
          /\ nodes[k].type = "Service"
          /\ nodes[k].id = PurlNumber(GeneratePurl(op.arg))

\* C38: add_node of the id that the call before has removed succeeds, and
\* the node comes back without edges: none of the edges removed with it is in
\* the edge list again.
C38_RemovalNotRemembered ==
    [][(/\ op.name = "remove_node"
        /\ err = NoError
        /\ op'.name = "add_node"
        /\ op'.node.id = op.id)
          => (/\ err' = NoError
              /\ HasNode(nodes', op.id)
              /\ \A i \in 1..Len(edges') : ~ Incident(edges'[i], op.id)
              /\ edges' = edges)]_vars

\* A graph of four nodes has lost one of the nodes 1..3, together with at
\* least one edge, and the node of that id has been added again.
C38_Witness ==
    /\ op.name = "add_node"
    /\ err = NoError
    /\ Len(pre.nodes) = 3
    /\ HasNode(pre.nodes, 4)
    /\ Len(nodes) = 4
    /\ edges # <<>>
    /\ \A i \in 1..Len(edges) : ~ Incident(edges[i], op.node.id)

\* C34: an edge s -> t that add_edge has rejected for a cycle is accepted
\* when it is tried again after removals that left both endpoints in the
\* graph and no directed path from t to s in the edge list: the check sees
\* the edge list of the moment only.
C34_NoStaleReachability ==
    (/\ op.name = "add_edge"
     /\ sub = ObjectValue(op.edge)
     /\ op.edge.source \in KeySet(pre.nodes)
     /\ op.edge.target \in KeySet(pre.nodes)
     /\ op.edge.source # op.edge.target
     /\ <<op.edge.target, op.edge.source>> \notin Reach(pre.edges))
        => (err = NoError /\ edges = Append(pre.edges, op.edge))

\* the kept edge, once rejected for a cycle, has been added
C34_Witness ==
    /\ op.name = "add_edge"
    /\ sub = ObjectValue(op.edge)
    /\ err = NoError
    /\ edges = Append(pre.edges, op.edge)

\* C37: on a graph made with add_node, add_edge, remove_node and remove_edge,
\* depth() returns 0 exactly when the edge list is empty, at most
\* node_count() - 1 when the graph has a node, and never more than
\* edge_count().
C37_DepthBounds ==
    (op.name = "depth") =>
        /\ err = NoError
        /\ (ret.int = 0) <=> (edges = <<>>)
        /\ (nodes # <<>>) => (ret.int <= NodeCount(Graph) - 1)
        /\ ret.int <= EdgeCount(Graph)

\* the depth of a path of three nodes and two edges: both bounds are met
C37_Witness ==
    /\ op.name = "depth"
    /\ NodeCount(Graph) = 3
    /\ EdgeCount(Graph) = 2
    /\ ret = IntValue(2)

\* the sets that get_ancestors(id) and get_descendants(id) return on the graph
AncestorSet(id) == NxAncestors(GetNxGraph(nodes, edges), id)

DescendantSet(id) == NxDescendants(GetNxGraph(nodes, edges), id)

\* C35: on a graph made with add_node, add_edge, remove_node and remove_edge,
\* x is among get_ancestors(y) exactly when y is among get_descendants(x); no
\* node is its own ancestor or descendant; the ancestors and the descendants
\* of a node have no node in common.
C35_AncestorsDescendantsDual ==
    /\ (op.name = "get_ancestors" /\ err = NoError) =>
          /\ \A x \in KeySet(nodes) : (x \in Range(ret.list)) <=> (op.id \in DescendantSet(x))
          /\ op.id \notin Range(ret.list)
          /\ Range(ret.list) \cap DescendantSet(op.id) = {}
    /\ (op.name = "get_descendants" /\ err = NoError) =>
          /\ \A y \in KeySet(nodes) : (y \in Range(ret.list)) <=> (op.id \in AncestorSet(y))
          /\ op.id \notin Range(ret.list)
          /\ Range(ret.list) \cap AncestorSet(op.id) = {}

\* the descendants of the first node of a path of three nodes: each of the
\* two has the first node among its ancestors, the first node has no ancestor
C35_Witness ==
    /\ op.name = "get_descendants"
    /\ err = NoError
    /\ Len(ret.list) = 2
    /\ \A y \in Range(ret.list) : op.id \in AncestorSet(y)
    /\ \E y \in Range(ret.list) : AncestorSet(y) = {op.id}
    /\ \E y \in Range(ret.list) : Cardinality(AncestorSet(y)) = 2
    /\ AncestorSet(op.id) = {}

\* one order for each set of descendants: the same whenever the set is the same
FixedOrder(S) == CHOOSE q \in SetOrders(S) : TRUE

\* C32: the list get_descendants(id) returns is a function of the node and
\* edge content of the graph: whenever the content is the same (in another
\* graph, in another run) the descendants come in the same order.
C32_DescendantOrderDeterministic ==
    (op.name = "get_descendants" /\ err = NoError) =>
        ret.list = FixedOrder(DescendantSet(op.id))

\* C31: topological_sort() raises CycleDetectedError exactly when the edge
\* list of the graph it is called on has a directed cycle; it never does on
\* the graph made with add_node, add_edge, remove_node and remove_edge, and
\* it does on a graph that from_dict has returned from a cyclic document.
C31_SortRaisesIffCyclic ==
    (op.name = "topological_sort") =>
        /\ (err = CycleDetectedError) <=> ~ Acyclic(op.graph.edges)
        /\ (err # CycleDetectedError) => (err = NoError /\ ret.kind = "list")
        /\ (op.self = "graph") => (err = NoError)
        /\ GraphUnchanged

\* the graph from_dict returned from the document of the cycle 1 -> 2 -> 1
\* is sorted
C31_Witness ==
    /\ op.name = "topological_sort"
    /\ op.self = "returned"
    /\ KeySet(op.graph.nodes) = {1, 2}
    /\ EdgeRel(op.graph.edges) = {<<1, 2>>, <<2, 1>>}
    /\ err = CycleDetectedError

\* C36: in the graph from_dict returns, every key of the nodes mapping is
\* the id of the node stored under it, get_node(k) returns a node of id k,
\* and to_dict() lists every node under its own id.
C36_KeyEqualsId ==
    (op.name = "from_dict") =>
        LET g == ret.graph
        IN  /\ \A i \in 1..Len(g.nodes) : g.nodes[i].node.id = g.nodes[i].key
            /\ \A i \in 1..Len(g.nodes) :
                  KeyedGetNode(g, g.nodes[i].key).object.id = g.nodes[i].key
            /\ \A n \in 1..Len(KeyedToDictNodes(g)) :
                  KeyedToDictNodes(g)[n].data.id = KeyedToDictNodes(g)[n].key

\* the graph commands
CliCalls == {"cli.add_node", "cli.add_edge", "cli.remove_node", "cli.remove_edge"}

\* C33: after any sequence of add-node, add-edge, remove-node and
\* remove-edge commands the saved graph is acyclic and has no dangling edge;
\* a command whose engine call fails for a taken id, a missing node or a
\* cycle leaves the saved graph as it was, and add-edge and remove-node print
\* the error and return.
C33_CliKeepsSavedGraphValid ==
    /\ Acyclic(edges)
    /\ NoDanglingEdge(Graph)
    /\ (op.name \in CliCalls /\ err # NoError) => GraphUnchanged
    /\ (op.name \in {"cli.add_edge", "cli.remove_node"}
          /\ err \in {NodeNotFoundError, CycleDetectedError}) => (ret = Echo("Error"))

\* add-edge 2 -> 1 is refused for a cycle when the saved graph holds 1 -> 2
C33_Witness ==
    /\ op.name = "cli.add_edge"
    /\ err = CycleDetectedError
    /\ ret = Echo("Error")
    /\ op.edge.source # op.edge.target
    /\ <<op.edge.target, op.edge.source>> \in EdgeRel(edges)
    /\ edges = pre.edges
====
